---- MODULE Spec2Model ----
(***************************************************************************)
(* A model of LampCodeReview's file-ingestion pipeline (src/utils.py).     *)
(*                                                                         *)
(* Representation.  A Python str is a sequence of one-character strings,   *)
(* a bytes object is a sequence of integers 0..255, a decoded text is the  *)
(* sequence of its code points.  Optional[T] is a sequence of length at    *)
(* most one: None is <<>>, a present value x is <<x>>.  An exception is    *)
(* the name of its class.                                                  *)
(*                                                                         *)
(* The size constants of src/config.py are megabytes; the model keeps      *)
(* their order (minimum length < per-file cap < total cap) on a scale of   *)
(* single bytes so that every boundary is reachable by enumeration.        *)
(***************************************************************************)
EXTENDS Integers, Sequences, FiniteSets, TLC

VARIABLES
    uploaded_files,  \* the argument of process_uploaded_files
    pc,              \* position of the call: "start", "loop", "done", "raised", or "pure"
    idx,             \* number of items the for loop has taken so far
    total_size,      \* local total_size
    code_contents,   \* local code_contents: the CodeFiles accumulated so far
    warnings,        \* local warnings
    reads,           \* history: every read()/open() performed, as <<item index, entry index>>
    args,            \* arguments of the pure function under check
    ret              \* Optional: its return value

vars == <<uploaded_files, pc, idx, total_size, code_contents, warnings, reads, args, ret>>
ingestVars == <<uploaded_files, pc, idx, total_size, code_contents, warnings, reads>>
pureVars == <<args, ret>>

\* ------------------------------------------------------------------ bounds
MaxPathLen == 5     \* longest archive member path enumerated for the sanitizer
MaxItems == 3       \* longest submission list
MaxEntries == 2     \* most entries in one enumerated archive
MaxNameLen == 5     \* longest filename enumerated for the classifier
MaxFiles == 3       \* longest list of CodeFiles handed to the prompt builder
MaxPromptLen == 55  \* longest prompt handed to the token validator
MaxLines == 3       \* most lines taken from one streamed response

\* ------------------------------------------------------- program constants
MAX_FILE_SIZE == 4          \* config.py: 10 * 1024 * 1024, scaled to bytes
MAX_TOTAL_SIZE == 10        \* config.py: 50 * 1024 * 1024, scaled to bytes
MIN_CONTENT_LENGTH == 3     \* utils.py: len(stripped) < 10, scaled with the caps

\* ------------------------------------------------------------ Optional[T]
None == <<>>
Some(x) == <<x>>
Get(o) == o[1]

\* ----------------------------------------------------------- str helpers
UpperToLower ==
    ("A" :> "a") @@ ("B" :> "b") @@ ("C" :> "c") @@ ("D" :> "d") @@ ("E" :> "e") @@
    ("F" :> "f") @@ ("G" :> "g") @@ ("H" :> "h") @@ ("I" :> "i") @@ ("J" :> "j") @@
    ("K" :> "k") @@ ("L" :> "l") @@ ("M" :> "m") @@ ("N" :> "n") @@ ("O" :> "o") @@
    ("P" :> "p") @@ ("Q" :> "q") @@ ("R" :> "r") @@ ("S" :> "s") @@ ("T" :> "t") @@
    ("U" :> "u") @@ ("V" :> "v") @@ ("W" :> "w") @@ ("X" :> "x") @@ ("Y" :> "y") @@
    ("Z" :> "z")

\* str.lower()
Lower(s) == [i \in 1..Len(s) |-> IF s[i] \in DOMAIN UpperToLower THEN UpperToLower[s[i]] ELSE s[i]]

\* str.rfind(c), 1-based; 0 where Python answers -1
RFind(s, c) ==
    IF \E i \in 1..Len(s) : s[i] = c
    THEN CHOOSE i \in 1..Len(s) : s[i] = c /\ \A j \in (i+1)..Len(s) : s[j] # c
    ELSE 0

\* str.endswith(suffix)
EndsWith(s, suffix) ==
    /\ Len(s) >= Len(suffix)
    /\ SubSeq(s, Len(s) - Len(suffix) + 1, Len(s)) = suffix

\* str.startswith(prefix)
StartsWith(s, prefix) ==
    /\ Len(s) >= Len(prefix)
    /\ SubSeq(s, 1, Len(prefix)) = prefix

\* str.replace(old, new) for single characters
Replace(s, old, new) == [i \in 1..Len(s) |-> IF s[i] = old THEN new ELSE s[i]]

\* str.split(sep) for a single-character separator
RECURSIVE Split(_, _)
Split(s, sep) ==
    IF \A i \in 1..Len(s) : s[i] # sep
    THEN <<s>>
    ELSE LET k == CHOOSE i \in 1..Len(s) : s[i] = sep /\ \A j \in 1..(i-1) : s[j] # sep
         IN  <<SubSeq(s, 1, k-1)>> \o Split(SubSeq(s, k+1, Len(s)), sep)

\* sep.join(parts)
RECURSIVE Join(_, _)
Join(parts, sep) ==
    IF parts = <<>> THEN <<>>
    ELSE IF Len(parts) = 1 THEN parts[1]
    ELSE parts[1] \o <<sep>> \o Join(Tail(parts), sep)

\* all sequences over S of length at most n
SeqsUpTo(S, n) == UNION {[1..k -> S] : k \in 0..n}

\* ------------------------------------------------------ is_supported_file
SUPPORTED_EXTS_SET == {
    <<".", "p", "y">>, <<".", "j", "s">>, <<".", "j", "a", "v", "a">>, <<".", "t", "s">>,
    <<".", "g", "o">>, <<".", "r", "b">>, <<".", "p", "h", "p">>, <<".", "c", "s">>,
    <<".", "c">>, <<".", "c", "p", "p">>, <<".", "h">>, <<".", "h", "p", "p">>,
    <<".", "h", "t", "m", "l">>, <<".", "h", "t", "m">>, <<".", "c", "s", "s">>,
    <<".", "s", "q", "l">>, <<".", "y", "a", "m", "l">>, <<".", "y", "m", "l">>,
    <<".", "j", "s", "o", "n">>, <<".", "x", "m", "l">>, <<".", "m", "d">>,
    <<".", "s", "h">>, <<".", "b", "a", "t">>, <<".", "r", "s">>, <<".", "p", "s", "1">> }

\* a Python value as the classifier sees it: its type and, for a sized or numeric
\* value, the value
Str(s) == [type |-> "str", value |-> s]
BytesObject(b) == [type |-> "bytes", value |-> b]
IntObject(n) == [type |-> "int", value |-> n]
ListObject(l) == [type |-> "list", value |-> l]
NoneObject == [type |-> "NoneType", value |-> <<>>]

\* bool(obj)
Truthy(obj) ==
    IF obj.type = "NoneType" THEN FALSE
    ELSE IF obj.type = "int" THEN obj.value # 0
    ELSE obj.value # <<>>

\* isinstance(obj, str)
IsInstanceStr(obj) == obj.type = "str"

\* mutant: the first dot instead of the last one
DotIndex_First(lowercase_name) ==
    IF \E i \in 1..Len(lowercase_name) : lowercase_name[i] = "."
    THEN CHOOSE i \in 1..Len(lowercase_name) :
            lowercase_name[i] = "." /\ \A j \in 1..(i-1) : lowercase_name[j] # "."
    ELSE 0

\* lowercase_name.rfind('.')
DotIndex(lowercase_name) == RFind(lowercase_name, ".")

is_supported_file(filename) ==
    IF ~Truthy(filename) \/ ~IsInstanceStr(filename) THEN FALSE
    ELSE LET lowercase_name == Lower(filename.value)
             dot_index == DotIndex(lowercase_name)
         IN  IF dot_index = 0 THEN FALSE
             ELSE SubSeq(lowercase_name, dot_index, Len(lowercase_name)) \in SUPPORTED_EXTS_SET

\* ----------------------------------------------- sanitize_zip_member_path
\* mutant: the back-slashes are left in place
NormalizeSeparators_Kept(member_name) == member_name

\* member_name.replace("\\", "/")
NormalizeSeparators(member_name) == Replace(member_name, "\\", "/")

\* PurePosixPath(p).is_absolute(): the path has a root
PurePathIsAbsolute(p) == p # <<>> /\ p[1] = "/"

IsRealPart(part) == part # <<>> /\ part # <<".">>

\* PurePosixPath(p).parts: the root, if any, then the segments that are neither empty nor "."
PurePathParts(p) ==
    (IF PurePathIsAbsolute(p) THEN <<(<<"/">>)>> ELSE <<>>) \o SelectSeq(Split(p, "/"), IsRealPart)

\* returns <<Optional safe path, Optional error reason>>
sanitize_zip_member_path(member_name) ==
    IF member_name = <<>> THEN <<None, Some("invalid path name")>>
    ELSE LET normalized == NormalizeSeparators(member_name)
             parts == SelectSeq(PurePathParts(normalized), IsRealPart)
         IN  IF PurePathIsAbsolute(normalized) THEN <<None, Some("absolute path")>>
             ELSE IF parts = <<>> THEN <<None, Some("empty or hidden path")>>
             ELSE IF \E i \in 1..Len(parts) : parts[i] = <<".", ".">>
                  THEN <<None, Some("path traversal")>>
             ELSE <<Some(Join(parts, "/")), None>>

\* ------------------------------------------------------------ exceptions
\* the classes the ingestion code can meet; every one derives from Exception
ExceptionSubclasses == {"IOError", "BadZipFile", "AttributeError", "TypeError", "RuntimeError"}

\* a frame carries the mutable lists of one call and the exception in flight, if any
Frame(cc, w, rd) == [cc |-> cc, w |-> w, rd |-> rd, exc |-> None]
Raise(st, class) == [st EXCEPT !.exc = Some(class)]
Raised(st) == st.exc # None

\* the frame a handler starts from: the exception is caught
Caught(st) == [st EXCEPT !.exc = None]

\* try: ... except <classes>: ..., where handled is the frame the handler leaves
Catch(st, classes, handled) ==
    IF Raised(st) /\ Get(st.exc) \in classes THEN handled ELSE st

Warning(msg, name) == [msg |-> msg, name |-> name]
\* warnings.append(f"...{name}...")
Warn(st, msg, name) == [st EXCEPT !.w = Append(@, Warning(msg, Some(name)))]
\* warnings.append("...") for a message that names no file
WarnPlain(st, msg) == [st EXCEPT !.w = Append(@, Warning(msg, None))]

\* ------------------------------------------- _decode_and_validate_content
\* bytes.decode('utf-8') for the one- and two-byte forms (every byte of the
\* model's alphabet is below 224): <<TRUE, code points>> or <<FALSE, <<>>>>
\* for UnicodeDecodeError
RECURSIVE Utf8Decode(_)
Utf8Decode(b) ==
    IF b = <<>> THEN <<TRUE, <<>>>>
    ELSE IF b[1] < 128
         THEN LET rest == Utf8Decode(Tail(b))
              IN  IF rest[1] THEN <<TRUE, <<b[1]>> \o rest[2]>> ELSE <<FALSE, <<>>>>
    ELSE IF b[1] \in 194..223 /\ Len(b) >= 2 /\ b[2] \in 128..191
         THEN LET rest == Utf8Decode(SubSeq(b, 3, Len(b)))
              IN  IF rest[1] THEN <<TRUE, <<(b[1] - 192) * 64 + (b[2] - 128)>> \o rest[2]>>
                  ELSE <<FALSE, <<>>>>
    ELSE <<FALSE, <<>>>>

\* the code points below 256 for which str.isspace() holds
WhitespaceCodePoints == {9, 10, 11, 12, 13, 28, 29, 30, 31, 32, 133, 160}

\* mutant: only the ASCII white space is stripped
Strip_Ascii(text) ==
    LET keep == {i \in 1..Len(text) : text[i] > 32}
    IN  IF keep = {} THEN <<>>
        ELSE LET first == CHOOSE i \in keep : \A j \in keep : i <= j
                 last  == CHOOSE i \in keep : \A j \in keep : i >= j
             IN  SubSeq(text, first, last)

\* str.strip()
Strip(text) ==
    LET keep == {i \in 1..Len(text) : text[i] \notin WhitespaceCodePoints}
    IN  IF keep = {} THEN <<>>
        ELSE LET first == CHOOSE i \in keep : \A j \in keep : i <= j
                 last  == CHOOSE i \in keep : \A j \in keep : i >= j
             IN  SubSeq(text, first, last)

\* mutant: the threshold is one too low
TooShort_OffByOne(stripped) == Len(stripped) < MIN_CONTENT_LENGTH - 1

\* len(stripped) < 10
TooShort(stripped) == Len(stripped) < MIN_CONTENT_LENGTH

\* mutant: the stripped copy is returned
ReturnedContent_Stripped(decoded_content, stripped) == stripped

\* return decoded_content: the text as decoded, not the stripped copy
ReturnedContent(decoded_content, stripped) == decoded_content

\* returns <<Optional decoded text, the warnings list after the call>>
_decode_and_validate_content(raw_content, filename, warns) ==
    LET decoded == Utf8Decode(raw_content)
        decoded_content == decoded[2]
        stripped == Strip(decoded_content)
    IN  IF ~decoded[1]
        THEN <<None, Append(warns, Warning("Could not decode '{}' as UTF-8. Skipping.", Some(filename)))>>
        ELSE IF stripped = <<>>
        THEN <<None, Append(warns, Warning("File '{}' is empty or contains only whitespace. Skipping.", Some(filename)))>>
        ELSE IF TooShort(stripped)
        THEN <<None, Append(warns, Warning("File '{}' is too short for meaningful analysis. Skipping.", Some(filename)))>>
        ELSE <<Some(ReturnedContent(decoded_content, stripped)), warns>>

\* ------------------------------------------------------- _process_zip_file
\* ZipInfo.is_dir(): the member name ends with a slash
IsDir(file_info) == EndsWith(file_info.filename, <<"/">>)

CodeFile(filename, content) == [filename |-> filename, content |-> content]

\* mutant: the slice keeps one byte too many
Truncate_OffByOne(content, max_file_size) == SubSeq(content, 1, max_file_size + 1)

\* content[:max_file_size]
Truncate(content, max_file_size) == SubSeq(content, 1, max_file_size)

\* mutant: the new CodeFile is put in front of the list
TruncateDecodeAppend_Prepends(content, filename, st, max_file_size) ==
    LET truncated == Len(content) > max_file_size
        content2 == IF truncated THEN Truncate(content, max_file_size) ELSE content
        st2 == IF truncated THEN Warn(st, "File '{}' truncated to {}MB", filename) ELSE st
        dec == _decode_and_validate_content(content2, filename, st2.w)
    IN  [st2 EXCEPT !.w = dec[2],
                    !.cc = IF dec[1] # None /\ Get(dec[1]) # <<>>
                           THEN <<CodeFile(filename, Get(dec[1]))>> \o @ ELSE @]

\* content[:max_file_size], its warning, the decoder, and the append
\* (utils.py 112-121 and 147-156 are the same statements)
TruncateDecodeAppend(content, filename, st, max_file_size) ==
    LET truncated == Len(content) > max_file_size
        content2 == IF truncated THEN Truncate(content, max_file_size) ELSE content
        st2 == IF truncated THEN Warn(st, "File '{}' truncated to {}MB", filename) ELSE st
        dec == _decode_and_validate_content(content2, filename, st2.w)
    IN  [st2 EXCEPT !.w = dec[2],
                    !.cc = IF dec[1] # None /\ Get(dec[1]) # <<>>
                           THEN Append(@, CodeFile(filename, Get(dec[1]))) ELSE @]

\* the exception classes the handlers of the module name
CatchIOError == {"IOError"}
CatchBadZipFile == {"BadZipFile"}
CatchException == ExceptionSubclasses

\* stream.read(): the body, or the exception the stream raises
ReadOutcome(st, stream) ==
    IF stream = "ok" THEN st
    ELSE Raise(st, IF stream = "ioerror" THEN "IOError" ELSE "RuntimeError")

\* mutant: a rejected entry is reported to the user
UnsafeEntry_Warned(st, file_info, error_reason) ==
    Warn(st, "Skipping unsafe path in ZIP: {}", file_info.filename)

\* an entry the sanitizer rejects: logger.debug(...); continue
UnsafeEntry(st, file_info, error_reason) == st

\* mutant: the entry is opened before its size is looked at
ZipEntry_OpensFirst(file_info, st, i, j, max_file_size) ==
    LET sanitized == sanitize_zip_member_path(file_info.filename)
        safe_filename == sanitized[1]
        error_reason == sanitized[2]
    IN  IF IsDir(file_info) THEN st
        ELSE IF error_reason # None THEN UnsafeEntry(st, file_info, Get(error_reason))
        ELSE IF safe_filename = None \/ Get(safe_filename) = <<>> THEN st
        ELSE IF file_info.file_size > max_file_size
             THEN Warn([st EXCEPT !.rd = Append(@, <<i, j>>)],
                       "Skipping large file in ZIP: {} ({} bytes)", Get(safe_filename))
        ELSE IF ~is_supported_file(Str(Get(safe_filename))) \/ StartsWith(Get(safe_filename), <<".">>)
             THEN st
        ELSE LET opened == ReadOutcome([st EXCEPT !.rd = Append(@, <<i, j>>)], file_info.read)
                 inner == Catch(opened, CatchIOError,
                                Warn(Caught(opened), "Could not read '{}' from ZIP. Skipping.",
                                     Get(safe_filename)))
                 body == IF opened.exc # None THEN inner
                         ELSE TruncateDecodeAppend(file_info.content, Get(safe_filename), opened,
                                                   max_file_size)
             IN  Catch(body, CatchException, Caught(body))

\* the body of the for loop over zip_ref.infolist(), one entry (utils.py 85-124)
ZipEntry(file_info, st, i, j, max_file_size) ==
    LET sanitized == sanitize_zip_member_path(file_info.filename)
        safe_filename == sanitized[1]
        error_reason == sanitized[2]
    IN  IF IsDir(file_info) THEN st
        ELSE IF error_reason # None THEN UnsafeEntry(st, file_info, Get(error_reason))
        ELSE IF safe_filename = None \/ Get(safe_filename) = <<>> THEN st
        ELSE IF file_info.file_size > max_file_size
             THEN Warn(st, "Skipping large file in ZIP: {} ({} bytes)", Get(safe_filename))
        ELSE IF ~is_supported_file(Str(Get(safe_filename))) \/ StartsWith(Get(safe_filename), <<".">>)
             THEN st
        ELSE LET opened == ReadOutcome([st EXCEPT !.rd = Append(@, <<i, j>>)], file_info.read)
                 inner == Catch(opened, CatchIOError,
                                Warn(Caught(opened), "Could not read '{}' from ZIP. Skipping.",
                                     Get(safe_filename)))
                 body == IF opened.exc # None THEN inner
                         ELSE TruncateDecodeAppend(file_info.content, Get(safe_filename), opened,
                                                   max_file_size)
             IN  Catch(body, CatchException, Caught(body))

RECURSIVE ZipEntries(_, _, _, _, _)
ZipEntries(infolist, st, i, j, max_file_size) ==
    IF j > Len(infolist) THEN st
    ELSE ZipEntries(infolist, ZipEntry(infolist[j], st, i, j, max_file_size), i, j + 1, max_file_size)

\* zipfile.ZipFile(uploaded_file): the stream must be readable and hold an archive;
\* zipfile reports an OSError of the stream, like bytes that are no archive, as
\* BadZipFile
_process_zip_file(uploaded_file, st, i, max_file_size) ==
    LET name == Get(uploaded_file.name)
        opened == ReadOutcome([st EXCEPT !.rd = Append(@, <<i, 0>>)], uploaded_file.stream)
        body == IF Raised(opened)
                THEN (IF Get(opened.exc) = "IOError" THEN Raise(opened, "BadZipFile") ELSE opened)
                ELSE IF uploaded_file.archive = None THEN Raise(opened, "BadZipFile")
                ELSE ZipEntries(Get(uploaded_file.archive), opened, i, 1, max_file_size)
        afterBadZip == Catch(body, CatchBadZipFile,
                             Warn(Caught(body), "'{}' is not a valid ZIP file. Skipping.", name))
    IN  Catch(afterBadZip, CatchException,
              Warn(Caught(afterBadZip), "Error processing ZIP file '{}'. Skipping.", name))

\* --------------------------------------------------- _process_regular_file
_process_regular_file(uploaded_file, st, i, max_file_size) ==
    LET name == Get(uploaded_file.name)
        opened == ReadOutcome([st EXCEPT !.rd = Append(@, <<i, 0>>)], uploaded_file.stream)
        inner == Catch(opened, CatchIOError,
                       Warn(Caught(opened), "Could not read '{}'. Skipping.", name))
        body == IF ~is_supported_file(Str(name)) THEN st
                ELSE IF Raised(opened) THEN inner
                ELSE TruncateDecodeAppend(uploaded_file.body, name, opened, max_file_size)
    IN  Catch(body, CatchException, Warn(Caught(body), "Error processing '{}'. Skipping.", name))

\* -------------------------------------------------- process_uploaded_files
UNKNOWN == <<"u", "n", "k", "n", "o", "w", "n">>
DOT_ZIP == <<".", "z", "i", "p">>

\* getattr(uploaded_file, 'size', 0)
SizeOf(uploaded_file) == IF uploaded_file.size = None THEN 0 ELSE Get(uploaded_file.size)

\* getattr(uploaded_file, 'name', 'unknown')
NameOrUnknown(uploaded_file) == IF uploaded_file.name = None THEN UNKNOWN ELSE Get(uploaded_file.name)

\* mutant: the size is assigned, not added
TotalAfter_Assigned(uploaded_file, total) ==
    IF SizeOf(uploaded_file) <= 0 THEN total ELSE SizeOf(uploaded_file)

\* total_size after the item: every item of positive size is counted
TotalAfter(uploaded_file, total) ==
    IF SizeOf(uploaded_file) <= 0 THEN total ELSE total + SizeOf(uploaded_file)

\* mutant: the cap is compared with the item's own size
Breaks_PerItem(uploaded_file, total) == SizeOf(uploaded_file) > MAX_TOTAL_SIZE

\* total_size > MAX_TOTAL_SIZE after the item was counted: the loop breaks
Breaks(uploaded_file, total) ==
    SizeOf(uploaded_file) > 0 /\ TotalAfter(uploaded_file, total) > MAX_TOTAL_SIZE

\* one iteration of the for loop (utils.py 175-195), item number i: the frame after it
LoopBody(uploaded_file, st, i, total) ==
    LET body ==
            IF SizeOf(uploaded_file) <= 0
            THEN IF uploaded_file.name = None THEN Raise(st, "AttributeError")
                 ELSE Warn(st, "File '{}' has invalid size. Skipping.", Get(uploaded_file.name))
            ELSE IF Breaks(uploaded_file, total)
            THEN WarnPlain(st, "Total upload size exceeded {}MB. Skipping remaining files.")
            ELSE IF uploaded_file.name = None THEN Raise(st, "AttributeError")
            ELSE IF EndsWith(Lower(Get(uploaded_file.name)), DOT_ZIP)
            THEN _process_zip_file(uploaded_file, st, i, MAX_FILE_SIZE)
            ELSE _process_regular_file(uploaded_file, st, i, MAX_FILE_SIZE)
    IN  Catch(body, CatchException,
              Warn(Caught(body), "Error processing '{}'. Skipping.", NameOrUnknown(uploaded_file)))

\* mutant: no handler around the loop
OuterHandler_Missing(st) == st

\* except Exception around the whole loop (utils.py 196-198)
OuterHandler(st) ==
    Catch(st, CatchException, WarnPlain(Caught(st), "Critical error processing files: {}"))

\* if not uploaded_files: return code_contents, warnings
Call ==
    /\ pc = "start"
    /\ pc' = IF uploaded_files.truthy THEN "loop" ELSE "done"
    /\ UNCHANGED <<uploaded_files, idx, total_size, code_contents, warnings, reads, pureVars>>

\* the for loop takes its next item
ProcessItem ==
    /\ pc = "loop"
    /\ idx < Len(uploaded_files.items)
    /\ LET i == idx + 1
           uploaded_file == uploaded_files.items[i]
           st == OuterHandler(LoopBody(uploaded_file, Frame(code_contents, warnings, reads),
                                       i, total_size))
       IN  /\ idx' = i
           /\ total_size' = TotalAfter(uploaded_file, total_size)
           /\ code_contents' = st.cc
           /\ warnings' = st.w
           /\ reads' = st.rd
           /\ pc' = IF Raised(st) THEN "raised"
                    ELSE IF Breaks(uploaded_file, total_size) THEN "done"
                    ELSE "loop"
    /\ UNCHANGED <<uploaded_files, pureVars>>

\* the argument cannot be iterated (any further): the for statement raises
IterationRaises ==
    /\ pc = "loop"
    /\ idx = Len(uploaded_files.items)
    /\ uploaded_files.raises
    /\ LET st == OuterHandler(Raise(Frame(code_contents, warnings, reads), "TypeError"))
       IN  /\ code_contents' = st.cc
           /\ warnings' = st.w
           /\ reads' = st.rd
           /\ pc' = IF Raised(st) THEN "raised" ELSE "done"
    /\ UNCHANGED <<uploaded_files, idx, total_size, pureVars>>

\* the list is exhausted: return code_contents, warnings
LoopEnds ==
    /\ pc = "loop"
    /\ idx = Len(uploaded_files.items)
    /\ ~uploaded_files.raises
    /\ pc' = "done"
    /\ UNCHANGED <<uploaded_files, idx, total_size, code_contents, warnings, reads, pureVars>>

Next == Call \/ ProcessItem \/ IterationRaises \/ LoopEnds

\* ------------------------------------------------------------ the uploads
A_PY == <<"a", ".", "p", "y">>
B_JS == <<"B", ".", "J", "S">>
N_TXT == <<"n", ".", "t", "x", "t">>
Z_ZIP == <<"z", ".", "z", "i", "p">>

\* byte alphabet: space, 'a', and the pieces of U+00A0 (C2 A0), U+00E9 (C3 A9)
Bytes == {32, 97, 160, 169, 194, 195}
MaxBodyLen == MAX_FILE_SIZE + 1

Upload(name, size, stream, body, archive) ==
    [name |-> name, size |-> size, stream |-> stream, body |-> body, archive |-> archive]

\* a plain upload: its size attribute is the length of its body
RegularFile(name, body) == Upload(Some(name), Some(Len(body)), "ok", body, None)

\* an archive upload: its size attribute is the size of the compressed archive
ZipUpload(size, infolist) == Upload(Some(Z_ZIP), Some(size), "ok", <<>>, Some(infolist))

\* a ZipInfo with the outcome of reading it; a read returns file_size bytes
Entry(filename, read, content) ==
    [filename |-> filename, file_size |-> Len(content), read |-> read, content |-> content]

OK3 == <<97, 97, 97>>                  \* "aaa"
OK4 == <<195, 169, 97, 97>>            \* "éaa": 4 bytes, 3 characters
SHORT2 == <<97, 97>>                   \* "aa"
BAD3 == <<169, 97, 97>>                \* a stray continuation byte
OVER5 == <<97, 97, 97, 97, 97>>        \* one byte over the cap
SPLIT5 == <<97, 97, 97, 195, 169>>     \* one byte over the cap, the cut splits a character

RegularPool ==
    {RegularFile(A_PY, b) : b \in {OK3, BAD3, OVER5, SPLIT5}}
    \cup {RegularFile(N_TXT, OK3),
          Upload(Some(A_PY), Some(3), "ioerror", OK3, None),
          Upload(None, Some(3), "ok", OK3, None),
          Upload(Some(A_PY), None, "ok", OK3, None)}

EntryPool ==
    {Entry(A_PY, "ok", OK3),
     Entry(<<".", ".", "/">> \o A_PY, "ok", OK3),
     Entry(<<"/">> \o A_PY, "ok", OK3),
     Entry(<<"d", "\\">> \o A_PY, "ok", OK4),
     Entry(<<"d", "/">>, "ok", <<>>),
     Entry(<<".">> \o A_PY, "ok", OK3),
     Entry(N_TXT, "ok", OK3),
     Entry(A_PY, "ok", OVER5),
     Entry(<<".", ".", "/">> \o A_PY, "ok", OVER5),
     Entry(A_PY, "ok", SHORT2),
     Entry(A_PY, "ok", BAD3),
     Entry(A_PY, "ioerror", OK3),
     Entry(A_PY, "error", OK3)}

ZipPool ==
    {ZipUpload(1, <<Entry(A_PY, "ok", OK3), Entry(<<"d", "/">> \o A_PY, "ok", OK4)>>),
     ZipUpload(2, <<Entry(<<".", ".", "/">> \o A_PY, "ok", OK3), Entry(A_PY, "error", OK3),
                    Entry(A_PY, "ok", OK3)>>),
     ZipUpload(MAX_TOTAL_SIZE + 1, <<Entry(A_PY, "ok", OK3)>>),
     Upload(Some(Z_ZIP), Some(2), "ok", <<>>, None)}

\* uploads that only the one-upload specification enumerates
RarePool ==
    {RegularFile(B_JS, OK3),
     Upload(Some(A_PY), Some(3), "error", OK3, None),
     Upload(None, Some(0), "ok", <<>>, None),
     Upload(Some(A_PY), Some(0 - 1), "ok", OK3, None),
     Upload(Some(Z_ZIP), Some(2), "error", <<>>, None),
     Upload(Some(Z_ZIP), Some(2), "ioerror", <<>>, None)}

UploadPool == RegularPool \cup ZipPool

\* what the caller can pass: a list, a falsy non-list (None, 0), an iterable that
\* raises when the for statement asks for its next item (a non-iterable at once)
Arguments(lists) ==
    {a \in [truthy : BOOLEAN, items : lists, raises : BOOLEAN] :
        /\ ~a.truthy => (a.items = <<>> /\ ~a.raises)
        /\ a.items # <<>> => a.truthy}

StartIngest(arguments) ==
    /\ uploaded_files \in arguments
    /\ pc = "start"
    /\ idx = 0
    /\ total_size = 0
    /\ code_contents = <<>>
    /\ warnings = <<>>
    /\ reads = <<>>
    /\ args = [fn |-> "process_uploaded_files"]
    /\ ret = None

\* one upload, with every body up to one byte over the cap and every small archive
SingleUploads ==
    {RegularFile(n, b) : n \in {A_PY, N_TXT}, b \in SeqsUpTo(Bytes, MaxBodyLen)}
    \cup {ZipUpload(1, infolist) : infolist \in SeqsUpTo(EntryPool, MaxEntries)}
    \cup RarePool

\* any submission of up to MaxItems uploads of the pool, or any single upload
Init ==
    StartIngest(Arguments(SeqsUpTo(UploadPool, MaxItems) \cup {<<u>> : u \in SingleUploads}))

Spec == Init /\ [][Next]_vars

\* a specification of one pure function leaves the ingestion variables idle
IdleIngest ==
    /\ uploaded_files = [truthy |-> FALSE, items |-> <<>>, raises |-> FALSE]
    /\ pc = "pure"
    /\ idx = 0
    /\ total_size = 0
    /\ code_contents = <<>>
    /\ warnings = <<>>
    /\ reads = <<>>

\* --------------------------------------------------- specification: decoder
InitDecode ==
    /\ IdleIngest
    /\ args \in [fn : {"_decode_and_validate_content"},
                 raw_content : SeqsUpTo(Bytes, MaxBodyLen),
                 filename : {A_PY, <<"d", "/">> \o A_PY},
                 warnings : {<<>>, <<Warning("File '{}' truncated to {}MB", Some(A_PY))>>}]
    /\ ret = None

CallDecode ==
    /\ pc = "pure"
    /\ ret = None
    /\ args.fn = "_decode_and_validate_content"
    /\ ret' = Some(_decode_and_validate_content(args.raw_content, args.filename, args.warnings))
    /\ UNCHANGED <<args, ingestVars>>

NextDecode == CallDecode

SpecDecode == InitDecode /\ [][NextDecode]_vars

\* ------------------------------------------------- specification: sanitizer
PathChars == {"/", "\\", ".", "a"}
MemberNames == SeqsUpTo(PathChars, MaxPathLen)
InitSanitize ==
    /\ IdleIngest
    /\ args \in [fn : {"sanitize_zip_member_path"}, member_name : MemberNames]
    /\ ret = None

CallSanitize ==
    /\ pc = "pure"
    /\ ret = None
    /\ args.fn = "sanitize_zip_member_path"
    /\ ret' = Some(sanitize_zip_member_path(args.member_name))
    /\ UNCHANGED <<args, ingestVars>>

NextSanitize == CallSanitize

SpecSanitize == InitSanitize /\ [][NextSanitize]_vars

\* ------------------------------------------------------ detect_dependencies
\* The text of a CodeFile is, in this part, a sequence of one-character strings.
SpaceChars == {" ", "\n", "\t"}
WordChars ==
    {"a", "b", "c", "d", "e", "f", "g", "h", "i", "j", "k", "l", "m", "n", "o", "p", "q", "r",
     "s", "t", "u", "v", "w", "x", "y", "z", "_", "0", "1", "2", "3", "4", "5", "6", "7", "8",
     "9"} \cup DOMAIN UpperToLower

\* \s and [\w.]
IsSpace(c) == c \in SpaceChars
IsNameChar(c) == c \in WordChars \cup {"."}

\* the index just past the longest run of \s that starts at p (p itself when there is none)
SpaceRunEnd(text, p) ==
    CHOOSE q \in p..(Len(text) + 1) :
        /\ \A r \in p..(q - 1) : IsSpace(text[r])
        /\ (q = Len(text) + 1 \/ ~IsSpace(text[q]))

\* the same for [\w.]
NameRunEnd(text, p) ==
    CHOOSE q \in p..(Len(text) + 1) :
        /\ \A r \in p..(q - 1) : IsNameChar(text[r])
        /\ (q = Len(text) + 1 \/ ~IsNameChar(text[q]))

LiteralAt(text, p, literal) ==
    /\ p + Len(literal) - 1 <= Len(text)
    /\ SubSeq(text, p, p + Len(literal) - 1) = literal

FROM == <<"f", "r", "o", "m">>
IMPORT == <<"i", "m", "p", "o", "r", "t">>

\* r'from\s+([\w.]+)\s+import' matched at p: Optional [end, group].  The classes
\* \s and [\w.] are disjoint, so the greedy runs are the only way to match.
MatchFromImport(text, p) ==
    LET r == SpaceRunEnd(text, p + Len(FROM))
        e == NameRunEnd(text, r)
        w == SpaceRunEnd(text, e)
    IN  IF /\ LiteralAt(text, p, FROM)
           /\ r > p + Len(FROM)
           /\ e > r
           /\ w > e
           /\ LiteralAt(text, w, IMPORT)
        THEN Some([end |-> w + Len(IMPORT), group |-> SubSeq(text, r, e - 1)])
        ELSE None

\* r'import\s+([\w.]+)' matched at p
MatchImport(text, p) ==
    LET r == SpaceRunEnd(text, p + Len(IMPORT))
        e == NameRunEnd(text, r)
    IN  IF /\ LiteralAt(text, p, IMPORT)
           /\ r > p + Len(IMPORT)
           /\ e > r
        THEN Some([end |-> e, group |-> SubSeq(text, r, e - 1)])
        ELSE None

import_patterns == <<"from", "import">>

MatchAt(pattern, text, p) ==
    IF pattern = "from" THEN MatchFromImport(text, p) ELSE MatchImport(text, p)

\* re.finditer(pattern, text): group(1) of the non-overlapping matches, left to right
RECURSIVE FindIter(_, _, _)
FindIter(pattern, text, p) ==
    IF p > Len(text) THEN <<>>
    ELSE LET match == MatchAt(pattern, text, p)
         IN  IF match # None
             THEN <<Get(match).group>> \o FindIter(pattern, text, Get(match).end)
             ELSE FindIter(pattern, text, p + 1)

\* match.group(1).split('.')[0]
TopLevelModule(group) == Split(group, ".")[1]

\* the set imports of one item
ImportsOf(content) ==
    LET from_groups == FindIter(import_patterns[1], content, 1)
        import_groups == FindIter(import_patterns[2], content, 1)
    IN  {TopLevelModule(from_groups[n]) : n \in 1..Len(from_groups)}
        \cup {TopLevelModule(import_groups[n]) : n \in 1..Len(import_groups)}

\* import_map as a dict: its keys in insertion order, and the value last stored
\* under each key
RECURSIVE Keys(_)
Keys(code_files) ==
    IF code_files = <<>> THEN <<>>
    ELSE LET before == Keys(SubSeq(code_files, 1, Len(code_files) - 1))
             filename == code_files[Len(code_files)].filename
         IN  IF \E k \in 1..Len(before) : before[k] = filename THEN before
             ELSE Append(before, filename)

ImportMap(code_files) ==
    [filename \in {code_files[i].filename : i \in 1..Len(code_files)} |->
        LET last == CHOOSE i \in 1..Len(code_files) :
                        /\ code_files[i].filename = filename
                        /\ \A j \in (i + 1)..Len(code_files) :
                                code_files[j].filename # filename
        IN  ImportsOf(code_files[last].content)]

\* the orders in which a Python set may hand out its elements
Orders(S) ==
    {o \in [1..Cardinality(S) -> S] : \A i, j \in 1..Cardinality(S) : i # j => o[i] # o[j]}

\* one iteration order for every set of import_map
IterationOrders(import_map) ==
    {iter \in [DOMAIN import_map -> UNION {Orders(import_map[f]) : f \in DOMAIN import_map}] :
        \A f \in DOMAIN import_map : iter[f] \in Orders(import_map[f])}

\* other_file.split('.')[0]
BaseName(other_file) == Split(other_file, ".")[1]

FilenamesOf(ordered) == {ordered[k].filename : k \in 1..Len(ordered)}

\* lines 259-261: the items of that name, as long as the name is not yet in ordered
RECURSIVE AppendItems(_, _, _, _)
AppendItems(code_files, filename, i, ordered) ==
    IF i > Len(code_files) THEN ordered
    ELSE AppendItems(code_files, filename, i + 1,
            IF code_files[i].filename = filename /\ filename \notin FilenamesOf(ordered)
            THEN Append(ordered, code_files[i])
            ELSE ordered)

\* visit(filename) on the closure's state st = [ordered, visited, visiting];
\* ctx holds what the closure reads: code_contents (files), keys, iter
RECURSIVE visit(_, _, _)
RECURSIVE VisitDeps(_, _, _, _, _)
RECURSIVE VisitOthers(_, _, _, _, _)
visit(ctx, filename, st) ==
    IF filename \in st.visited THEN st
    ELSE IF filename \in st.visiting
    THEN [st EXCEPT !.visiting = @ \ {filename}, !.visited = @ \cup {filename}]
    ELSE LET entered == [st EXCEPT !.visiting = @ \cup {filename}]
             after == VisitDeps(ctx, filename, ctx.iter[filename], 1, entered)
             left == [after EXCEPT !.visiting = @ \ {filename}, !.visited = @ \cup {filename}]
         IN  [left EXCEPT !.ordered = AppendItems(ctx.files, filename, 1, @)]

\* for dep_module in import_map.get(filename, set())
VisitDeps(ctx, filename, deps, k, st) ==
    IF k > Len(deps) THEN st
    ELSE VisitDeps(ctx, filename, deps, k + 1, VisitOthers(ctx, filename, deps[k], 1, st))

\* for other_file in import_map
VisitOthers(ctx, filename, dep_module, j, st) ==
    IF j > Len(ctx.keys) THEN st
    ELSE LET other_file == ctx.keys[j]
             next == IF /\ other_file # filename
                        /\ BaseName(other_file) = dep_module
                        /\ other_file \notin st.visited
                     THEN visit(ctx, other_file, st)
                     ELSE st
         IN  VisitOthers(ctx, filename, dep_module, j + 1, next)

\* for item in code_contents: visit(item['filename'])
RECURSIVE VisitAll(_, _, _)
VisitAll(ctx, i, st) ==
    IF i > Len(ctx.files) THEN st
    ELSE VisitAll(ctx, i + 1, visit(ctx, ctx.files[i].filename, st))

\* iter is the order in which each set of import_map is iterated
detect_dependencies(code_files, iter) ==
    IF code_files = <<>> THEN <<>>
    ELSE LET ctx == [files |-> code_files, keys |-> Keys(code_files), iter |-> iter]
             ordered == VisitAll(ctx, 1, [ordered |-> <<>>, visited |-> {}, visiting |-> {}]).ordered
         IN  IF ordered # <<>> THEN ordered ELSE code_files

\* --------------------------------------------------------- prioritize_files
\* sub in s
Contains(s, sub) ==
    \E p \in 1..(Len(s) - Len(sub) + 1) : SubSeq(s, p, p + Len(sub) - 1) = sub

\* any(pattern in filename.lower() for pattern in patterns)
AnyIn(patterns, filename) == \E pattern \in patterns : Contains(Lower(filename), pattern)

entry_points ==
    {<<"m", "a", "i", "n", ".", "p", "y">>, <<"a", "p", "p", ".", "p", "y">>,
     <<"i", "n", "d", "e", "x", ".", "j", "s">>,
     <<"s", "e", "r", "v", "e", "r", ".", "j", "s">>, <<"r", "u", "n", ".", "p", "y">>,
     <<"m", "a", "n", "a", "g", "e", ".", "p", "y">>}
config_files ==
    {<<"c", "o", "n", "f", "i", "g", ".", "p", "y">>,
     <<"s", "e", "t", "t", "i", "n", "g", "s", ".", "p", "y">>,
     <<"p", "a", "c", "k", "a", "g", "e", ".", "j", "s", "o", "n">>,
     <<"r", "e", "q", "u", "i", "r", "e", "m", "e", "n", "t", "s", ".", "t", "x", "t">>}
core_patterns ==
    {<<"m", "o", "d", "e", "l", "s", ".", "p", "y">>,
     <<"v", "i", "e", "w", "s", ".", "p", "y">>,
     <<"c", "o", "n", "t", "r", "o", "l", "l", "e", "r", "s", ".", "p", "y">>,
     <<"s", "e", "r", "v", "i", "c", "e", "s", ".", "p", "y">>,
     <<"u", "t", "i", "l", "s", ".", "p", "y">>}
security_patterns ==
    {<<"a", "u", "t", "h", ".", "p", "y">>,
     <<"s", "e", "c", "u", "r", "i", "t", "y", ".", "p", "y">>,
     <<"p", "e", "r", "m", "i", "s", "s", "i", "o", "n", "s", ".", "p", "y">>,
     <<"m", "i", "d", "d", "l", "e", "w", "a", "r", "e", ".", "p", "y">>}
test_patterns ==
    {<<"t", "e", "s", "t", "_">>, <<"_", "t", "e", "s", "t">>,
     <<".", "s", "p", "e", "c", ".">>, <<".", "t", "e", "s", "t", ".">>}

LARGE_CONTENT == 6      \* utils.py: content_length > 5000, scaled
SMALL_CONTENT == 2      \* utils.py: content_length < 100, scaled

\* lines 434-466
Score(item) ==
    (IF AnyIn(entry_points, item.filename) THEN 100 ELSE 0)
    + (IF AnyIn(config_files, item.filename) THEN 80 ELSE 0)
    + (IF AnyIn(core_patterns, item.filename) THEN 60 ELSE 0)
    + (IF AnyIn(security_patterns, item.filename) THEN 70 ELSE 0)
    + (IF AnyIn(test_patterns, item.filename) THEN 40 ELSE 0)
    - (IF Len(item.content) > LARGE_CONTENT THEN 10
       ELSE IF Len(item.content) < SMALL_CONTENT THEN 5 ELSE 0)

\* mutant: an ascending sort read backwards, which turns ties around
InsertAt_BeforeTies(sorted, pair) ==
    Cardinality({k \in 1..Len(sorted) : sorted[k][1] > pair[1]})

\* where list.sort(key=..., reverse=True) puts a pair among those before it: behind
\* every pair whose score is not smaller
InsertAt(sorted, pair) ==
    Cardinality({k \in 1..Len(sorted) : sorted[k][1] >= pair[1]})

\* priority_scores.sort(key=lambda x: x[0], reverse=True), a stable sort
RECURSIVE SortDescending(_)
SortDescending(priority_scores) ==
    IF priority_scores = <<>> THEN <<>>
    ELSE LET n == Len(priority_scores)
             sorted == SortDescending(SubSeq(priority_scores, 1, n - 1))
             at == InsertAt(sorted, priority_scores[n])
         IN  SubSeq(sorted, 1, at) \o <<priority_scores[n]>> \o SubSeq(sorted, at + 1, n - 1)

prioritize_files(code_files) ==
    IF code_files = <<>> THEN <<>>
    ELSE LET priority_scores == [i \in 1..Len(code_files) |-> <<Score(code_files[i]), code_files[i]>>]
             sorted == SortDescending(priority_scores)
         IN  [i \in 1..Len(sorted) |-> sorted[i][2]]

\* --------------------------------------------------- detect_project_context
\* A regular expression of the tables below, as far as re.search needs it: a
\* sequence of literals, \s+, .*, an optional character and $.
Lit(s) == [t |-> "lit", s |-> s]
Spaces == [t |-> "spaces"]
AnyOnLine == [t |-> "any"]
Opt(c) == [t |-> "opt", s |-> c]
End == [t |-> "end"]

\* re.IGNORECASE: both the pattern and the text in lower case
Fold(s, ignorecase) == IF ignorecase THEN Lower(s) ELSE s

FoldPattern(pattern, ignorecase) ==
    [k \in 1..Len(pattern) |->
        IF pattern[k].t \in {"lit", "opt"}
        THEN [pattern[k] EXCEPT !.s = IF pattern[k].t = "lit" THEN Fold(@, ignorecase)
                                      ELSE Fold(<<@>>, ignorecase)[1]]
        ELSE pattern[k]]

\* the rest of pattern, from element k on, matches text at p
RECURSIVE MatchesFrom(_, _, _, _)
MatchesFrom(pattern, k, text, p) ==
    IF k > Len(pattern) THEN TRUE
    ELSE LET e == pattern[k]
         IN  CASE e.t = "lit" ->
                    /\ p <= Len(text)
                    /\ text[p] = e.s[1]
                    /\ LiteralAt(text, p, e.s)
                    /\ MatchesFrom(pattern, k + 1, text, p + Len(e.s))
               [] e.t = "spaces" ->
                    /\ p <= Len(text)
                    /\ IsSpace(text[p])
                    /\ \/ MatchesFrom(pattern, k + 1, text, p + 1)
                       \/ MatchesFrom(pattern, k, text, p + 1)
               [] e.t = "any" ->
                    \/ MatchesFrom(pattern, k + 1, text, p)
                    \/ /\ p <= Len(text)
                       /\ text[p] # "\n"
                       /\ MatchesFrom(pattern, k, text, p + 1)
               [] e.t = "opt" ->
                    \/ MatchesFrom(pattern, k + 1, text, p)
                    \/ /\ p <= Len(text)
                       /\ text[p] = e.s
                       /\ MatchesFrom(pattern, k + 1, text, p + 1)
               [] e.t = "end" ->
                    /\ \/ p = Len(text) + 1
                       \/ p = Len(text) /\ text[p] = "\n"
                    /\ MatchesFrom(pattern, k + 1, text, p)

\* re.search(pattern, text, flags)
Search(pattern, text, ignorecase) ==
    LET folded == Fold(text, ignorecase)
        folded_pattern == FoldPattern(pattern, ignorecase)
    IN  \E p \in 1..(Len(text) + 1) : MatchesFrom(folded_pattern, 1, folded, p)

\* framework_patterns, in the order of the dict
framework_names == <<"django", "flask", "fastapi", "react", "node", "streamlit">>

framework_patterns ==
    [django |-> << <<Lit(<<"f", "r", "o", "m">>), Spaces, Lit(<<"d", "j", "a", "n", "g", "o", ".">>)>>,
                   <<Lit(<<"D", "j", "a", "n", "g", "o", "=", "=">>)>>,
                   <<Lit(<<"m", "a", "n", "a", "g", "e", ".", "p", "y">>)>>,
                   <<Lit(<<"s", "e", "t", "t", "i", "n", "g", "s", ".", "p", "y">>)>>,
                   <<Lit(<<"u", "r", "l", "s", ".", "p", "y">>)>> >>,
     flask |-> << <<Lit(<<"f", "r", "o", "m">>), Spaces, Lit(<<"f", "l", "a", "s", "k">>), Spaces, Lit(<<"i", "m", "p", "o", "r", "t">>)>>,
                  <<Lit(<<"F", "l", "a", "s", "k", "=", "=">>)>>,
                  <<Lit(<<"@", "a", "p", "p", ".", "r", "o", "u", "t", "e">>)>>,
                  <<Lit(<<"a", "p", "p", ".", "r", "u", "n", "(">>)>> >>,
     fastapi |-> << <<Lit(<<"f", "r", "o", "m">>), Spaces, Lit(<<"f", "a", "s", "t", "a", "p", "i">>), Spaces, Lit(<<"i", "m", "p", "o", "r", "t">>)>>,
                    <<Lit(<<"F", "a", "s", "t", "A", "P", "I", "(">>)>>,
                    <<Lit(<<"@", "a", "p", "p", ".", "g", "e", "t", "(">>)>>,
                    <<Lit(<<"u", "v", "i", "c", "o", "r", "n", ".", "r", "u", "n">>)>> >>,
     react |-> << <<Lit(<<"i", "m", "p", "o", "r", "t">>), Spaces, Lit(<<"R", "e", "a", "c", "t">>)>>,
                  <<Lit(<<"p", "a", "c", "k", "a", "g", "e", ".", "j", "s", "o", "n">>), AnyOnLine, Lit(<<"r", "e", "a", "c", "t">>)>>,
                  <<Lit(<<".", "j", "s">>), Opt("x")>>,
                  <<Lit(<<"c", "o", "m", "p", "o", "n", "e", "n", "t", "s", "/">>)>> >>,
     node |-> << <<Lit(<<"p", "a", "c", "k", "a", "g", "e", ".", "j", "s", "o", "n">>)>>,
                 <<Lit(<<"n", "o", "d", "e", "_", "m", "o", "d", "u", "l", "e", "s", "/">>)>>,
                 <<Lit(<<"r", "e", "q", "u", "i", "r", "e", "(">>)>>,
                 <<Lit(<<"i", "m", "p", "o", "r", "t">>), AnyOnLine, Lit(<<"f", "r", "o", "m">>)>> >>,
     streamlit |-> << <<Lit(<<"i", "m", "p", "o", "r", "t">>), Spaces, Lit(<<"s", "t", "r", "e", "a", "m", "l", "i", "t">>)>>,
                      <<Lit(<<"s", "t", ".">>)>>,
                      <<Lit(<<".", "s", "t", "r", "e", "a", "m", "l", "i", "t", "/">>)>> >>]

entry_point_files ==
    {<<"m", "a", "i", "n", ".", "p", "y">>, <<"a", "p", "p", ".", "p", "y">>, <<"i", "n", "d", "e", "x", ".", "j", "s">>, <<"s", "e", "r", "v", "e", "r", ".", "j", "s">>, <<"r", "u", "n", ".", "p", "y">>, <<"m", "a", "n", "a", "g", "e", ".", "p", "y">>}

context_config_files ==
    {<<"r", "e", "q", "u", "i", "r", "e", "m", "e", "n", "t", "s", ".", "t", "x", "t">>, <<"p", "a", "c", "k", "a", "g", "e", ".", "j", "s", "o", "n">>, <<"p", "y", "p", "r", "o", "j", "e", "c", "t", ".", "t", "o", "m", "l">>, <<"s", "e", "t", "u", "p", ".", "p", "y">>, <<"D", "o", "c", "k", "e", "r", "f", "i", "l", "e">>,
     <<"d", "o", "c", "k", "e", "r", "-", "c", "o", "m", "p", "o", "s", "e", ".", "y", "m", "l">>, <<".", "e", "n", "v">>, <<"c", "o", "n", "f", "i", "g", ".", "p", "y">>, <<"s", "e", "t", "t", "i", "n", "g", "s", ".", "p", "y">>, <<"a", "p", "p", ".", "y", "a", "m", "l">>, <<"P", "r", "o", "c", "f", "i", "l", "e">>}

context_test_patterns ==
    << <<Lit(<<"t", "e", "s", "t", "_">>), AnyOnLine, Lit(<<".", "p", "y">>), End>>,
       <<AnyOnLine, Lit(<<"_", "t", "e", "s", "t", ".", "p", "y">>), End>>,
       <<AnyOnLine, Lit(<<".", "s", "p", "e", "c", ".", "j", "s">>), End>>,
       <<AnyOnLine, Lit(<<".", "t", "e", "s", "t", ".", "j", "s">>), End>>,
       <<AnyOnLine, Lit(<<".", "s", "p", "e", "c", ".", "t", "s">>), End>>,
       <<AnyOnLine, Lit(<<".", "t", "e", "s", "t", ".", "t", "s">>), End>> >>

\* [item['filename'] for item in list]
RECURSIVE FilenameList(_)
FilenameList(list) ==
    IF list = <<>> THEN <<>> ELSE <<Head(list).filename>> \o FilenameList(Tail(list))

CONTEXT_CHARS == 12     \* utils.py: item['content'][:1000], scaled

\* '\n'.join([item['content'][:1000] for item in code_contents])
RECURSIVE AllContent(_)
AllContent(code_files) ==
    IF code_files = <<>> THEN <<>>
    ELSE LET content == code_files[1].content
             first == IF Len(content) <= CONTEXT_CHARS THEN content
                      ELSE SubSeq(content, 1, CONTEXT_CHARS)
         IN  IF Len(code_files) = 1 THEN first
             ELSE first \o <<"\n">> \o AllContent(Tail(code_files))

\* one pattern of a framework is found in the contents or in a filename
FrameworkFound(framework, all_content, filenames) ==
    \E k \in 1..Len(framework_patterns[framework]) :
        \/ Search(framework_patterns[framework][k], all_content, TRUE)
        \/ \E i \in 1..Len(filenames) :
                Search(framework_patterns[framework][k], filenames[i], TRUE)

\* context['frameworks']
RECURSIVE Frameworks(_, _, _)
Frameworks(all_content, filenames, n) ==
    IF n > Len(framework_names) THEN <<>>
    ELSE (IF FrameworkFound(framework_names[n], all_content, filenames)
          THEN <<framework_names[n]>> ELSE <<>>)
         \o Frameworks(all_content, filenames, n + 1)

project_type_order == <<"django", "fastapi", "flask", "react", "streamlit", "node">>

\* context['project_type']
ProjectType(frameworks) ==
    IF \E n \in 1..Len(project_type_order) : \E k \in 1..Len(frameworks) :
            frameworks[k] = project_type_order[n]
    THEN project_type_order[
            CHOOSE n \in 1..Len(project_type_order) :
                /\ \E k \in 1..Len(frameworks) : frameworks[k] = project_type_order[n]
                /\ \A m \in 1..(n - 1) : \A k \in 1..Len(frameworks) :
                        frameworks[k] # project_type_order[m]]
    ELSE "unknown"

IsEntryPoint(item) == item.filename \in entry_point_files
IsConfigFile(item) == item.filename \in context_config_files
IsTestFile(item) ==
    \E k \in 1..Len(context_test_patterns) : Search(context_test_patterns[k], item.filename, FALSE)

detect_project_context(code_files) ==
    LET filenames == FilenameList(code_files)
        all_content == AllContent(code_files)
        frameworks == Frameworks(all_content, filenames, 1)
    IN  [project_type |-> ProjectType(frameworks),
         frameworks |-> frameworks,
         entry_points |-> FilenameList(SelectSeq(code_files, IsEntryPoint)),
         config_files |-> FilenameList(SelectSeq(code_files, IsConfigFile)),
         test_files |-> FilenameList(SelectSeq(code_files, IsTestFile))]

\* --------------------------------------------------------- detect_redundancy
\* p is the start of a line (^ under re.MULTILINE)
AtLineStart(text, p) == p = 1 \/ text[p - 1] = "\n"

\* the end of the line that holds p (. matches no newline; $ under re.MULTILINE)
LineEnd(text, p) ==
    CHOOSE e \in p..(Len(text) + 1) :
        /\ \A r \in p..(e - 1) : text[r] # "\n"
        /\ (e = Len(text) + 1 \/ text[e] = "\n")

\* r'^(?:from|import)\s+.+$' matched at p: Optional end of the match.  \s+ is
\* greedy and gives characters back until .+ has a character that is no newline.
MatchImportLine(text, p) ==
    LET q == IF LiteralAt(text, p, FROM) THEN p + Len(FROM) ELSE p + Len(IMPORT)
        r == SpaceRunEnd(text, q)
        starts == {k \in (q + 1)..r : k <= Len(text) /\ text[k] # "\n"}
    IN  IF /\ AtLineStart(text, p)
           /\ (LiteralAt(text, p, FROM) \/ LiteralAt(text, p, IMPORT))
           /\ starts # {}
        THEN Some(LineEnd(text, CHOOSE k \in starts : \A other \in starts : other <= k))
        ELSE None

\* re.findall(import_pattern, content, re.MULTILINE)
RECURSIVE FindAllImportLines(_, _)
FindAllImportLines(text, p) ==
    IF p > Len(text) THEN <<>>
    ELSE LET match == MatchImportLine(text, p)
         IN  IF match # None
             THEN <<SubSeq(text, p, Get(match) - 1)>> \o FindAllImportLines(text, Get(match))
             ELSE FindAllImportLines(text, p + 1)

\* imports = set(re.findall(...)) of one item
ImportLines(content) ==
    LET found == FindAllImportLines(content, 1)
    IN  {found[n] : n \in 1..Len(found)}

\* patterns['imports']: the files each import line occurs in, in the order of the list
detect_redundancy(code_files) ==
    [imports |->
        [imp \in UNION {ImportLines(code_files[i].content) : i \in 1..Len(code_files)} |->
            FilenameList(SelectSeq(code_files, LAMBDA item : imp \in ImportLines(item.content)))]]

\* ord(c) for the characters of the texts in use: code points 32-95 and 97-126
ASCII_32_95 ==
    <<" ", "!", "\"", "#", "$", "%", "&", "'", "(", ")", "*", "+", ",", "-", ".", "/",
      "0", "1", "2", "3", "4", "5", "6", "7", "8", "9", ":", ";", "<", "=", ">", "?", "@",
      "A", "B", "C", "D", "E", "F", "G", "H", "I", "J", "K", "L", "M", "N", "O", "P", "Q",
      "R", "S", "T", "U", "V", "W", "X", "Y", "Z", "[", "\\", "]", "^", "_">>
ASCII_97_126 ==
    <<"a", "b", "c", "d", "e", "f", "g", "h", "i", "j", "k", "l", "m", "n", "o", "p", "q",
      "r", "s", "t", "u", "v", "w", "x", "y", "z", "{", "|", "}", "~">>

Ord(c) ==
    IF c = "\t" THEN 9
    ELSE IF c = "\n" THEN 10
    ELSE IF \E n \in 1..Len(ASCII_32_95) : ASCII_32_95[n] = c
    THEN 31 + CHOOSE n \in 1..Len(ASCII_32_95) : ASCII_32_95[n] = c
    ELSE 96 + CHOOSE n \in 1..Len(ASCII_97_126) : ASCII_97_126[n] = c

\* a < b for str
RECURSIVE StrLess(_, _)
StrLess(a, b) ==
    IF b = <<>> THEN FALSE
    ELSE IF a = <<>> THEN TRUE
    ELSE IF a[1] # b[1] THEN Ord(a[1]) < Ord(b[1])
    ELSE StrLess(Tail(a), Tail(b))

\* sorted(S) for a set of distinct str
SortedStrings(S) ==
    CHOOSE o \in Orders(S) : \A i, j \in 1..Cardinality(S) : i < j => StrLess(o[i], o[j])

\* ----------------------------------------------------- construct_user_prompt
\* The prompt is kept as the list prompt_parts that "".join() glues together.  A
\* part written with an f-string is a record of the values the f-string prints; a
\* literal part is its text, where ' stands for the back-quote and the emoji are
\* named.  A number is the integer that is printed.
TextPart(text) == [part |-> "text", text |-> text]

\* file_tree: the nodes of the nested dict, each the path of its keys, mapped to
\* "dir" (a dict) or "file" (None)
IsUnder(node, path) == Len(node) > Len(path) /\ SubSeq(node, 1, Len(path)) = path

\* a key on the way to the file already holds None: the next step raises TypeError
TreeInsertRaises(tree, path) ==
    \E k \in 1..(Len(path) - 1) :
        SubSeq(path, 1, k) \in DOMAIN tree /\ tree[SubSeq(path, 1, k)] = "file"

\* lines 492-498 for one item
TreeInsert(tree, path) ==
    LET kept == {node \in DOMAIN tree : ~IsUnder(node, path)}
        dirs == {SubSeq(path, 1, k) : k \in 1..(Len(path) - 1)}
    IN  [node \in kept \cup dirs \cup {path} |->
            IF node = path THEN "file"
            ELSE IF node \in DOMAIN tree THEN tree[node]
            ELSE "dir"]

\* lines 490-498: Optional tree, None when an insertion raised
RECURSIVE BuildTree(_, _, _)
BuildTree(ordered_contents, i, tree) ==
    IF i > Len(ordered_contents) THEN Some(tree)
    ELSE LET path == Split(ordered_contents[i].filename, "/")
         IN  IF TreeInsertRaises(tree, path) THEN None
             ELSE BuildTree(ordered_contents, i + 1, TreeInsert(tree, path))

ChildNames(tree, at) ==
    {node[Len(node)] : node \in {n \in DOMAIN tree : Len(n) = Len(at) + 1 /\ IsUnder(n, at)}}

\* format_tree(tree, indent): one record for each line
RECURSIVE format_tree(_, _, _)
RECURSIVE FormatChildren(_, _, _, _, _)
format_tree(tree, at, indent) ==
    FormatChildren(tree, at, SortedStrings(ChildNames(tree, at)), 1, indent)

FormatChildren(tree, at, names, k, indent) ==
    IF k > Len(names) THEN <<>>
    ELSE LET node == Append(at, names[k])
             line == [indent |-> indent, kind |-> tree[node], name |-> names[k]]
         IN  <<line>>
             \o (IF tree[node] = "dir" THEN format_tree(tree, node, indent + 1) ELSE <<>>)
             \o FormatChildren(tree, at, names, k + 1, indent)

\* content.count('\n')
CountLines(content) == Cardinality({k \in 1..Len(content) : content[k] = "\n"})

RECURSIVE TotalLines(_)
TotalLines(list) == IF list = <<>> THEN 0 ELSE CountLines(Head(list).content) + TotalLines(Tail(list))

RECURSIVE TotalChars(_)
TotalChars(list) == IF list = <<>> THEN 0 ELSE Len(Head(list).content) + TotalChars(Tail(list))

\* filename.split('.')[-1] if '.' in filename else 'unknown'
Lang(filename) ==
    IF RFind(filename, ".") = 0 THEN UNKNOWN
    ELSE SubSeq(filename, RFind(filename, ".") + 1, Len(filename))

\* languages: <<ext, count>> in the order the dict received its keys
RECURSIVE Languages(_)
Languages(list) ==
    IF list = <<>> THEN <<>>
    ELSE LET before == Languages(SubSeq(list, 1, Len(list) - 1))
             ext == Lang(list[Len(list)].filename)
         IN  IF \E k \in 1..Len(before) : before[k][1] = ext
             THEN [k \in 1..Len(before) |->
                    IF before[k][1] = ext THEN <<ext, before[k][2] + 1>> ELSE before[k]]
             ELSE Append(before, <<ext, 1>>)

SHARED_IMPORTS_SHOWN == 1   \* utils.py: sorted(shared_imports)[:10], scaled

\* sorted(shared_imports)[:10]
SharedImports(redundancy_info) ==
    LET shared == {imp \in DOMAIN redundancy_info.imports : Len(redundancy_info.imports[imp]) > 1}
        sorted == SortedStrings(shared)
    IN  SubSeq(sorted, 1, IF Len(sorted) < SHARED_IMPORTS_SHOWN THEN Len(sorted)
                          ELSE SHARED_IMPORTS_SHOWN)

WARNING_SIGN == <<"U+26A0", "U+FE0F">>
CHECK_MARK == <<"U+2705">>

\* s.replace(old, "")
RECURSIVE Remove(_, _)
Remove(s, old) ==
    IF s = <<>> THEN <<>>
    ELSE IF StartsWith(s, old) THEN Remove(SubSeq(s, Len(old) + 1, Len(s)), old)
    ELSE <<s[1]>> \o Remove(Tail(s), old)

\* warning.replace("<warning sign> ", "").replace("<check mark> ", "")
CleanWarning(warning) == Remove(Remove(warning, WARNING_SIGN \o <<" ">>), CHECK_MARK \o <<" ">>)

MetadataParts(ordered_contents) ==
    <<TextPart("## Code Review Request\n"),
      TextPart("**Submission Metadata:**\n"),
      [part |-> "- Files Analyzed: {}", n |-> Len(ordered_contents)],
      [part |-> "- Total Lines of Code: {:,}", n |-> TotalLines(ordered_contents)],
      [part |-> "- Total Characters: {:,}", n |-> TotalChars(ordered_contents)],
      [part |-> "- Estimated Tokens: ~{:,}", n |-> TotalChars(ordered_contents) \div 4],
      [part |-> "- Languages: {}\n", languages |-> Languages(ordered_contents)]>>

\* ', '.join(list) or 'None detected': the list, the fallback being printed for <<>>
ContextParts(project_context) ==
    <<TextPart("## Project Context\n"),
      [part |-> "- **Project Type**: {}", value |-> project_context.project_type],
      [part |-> "- **Frameworks**: {}", list |-> project_context.frameworks],
      [part |-> "- **Entry Points**: {}", list |-> project_context.entry_points],
      [part |-> "- **Config Files**: {}", list |-> project_context.config_files],
      [part |-> "- **Test Files**: {}\n", list |-> project_context.test_files]>>

TreeParts(tree) ==
    <<TextPart("\n## Project Structure\n'''\n"),
      [part |-> "file_tree_str", lines |-> format_tree(tree, <<>>, 0)],
      TextPart("\n'''\n")>>

ReviewContextParts(review_context) ==
    IF review_context = None \/ Get(review_context) = <<>> THEN <<>>
    ELSE <<TextPart("## Review Request Context\n\n")>>
         \o [k \in 1..Len(Get(review_context)) |->
                [part |-> "- **{label}**: {value}\n",
                 label |-> Get(review_context)[k][1], value |-> Get(review_context)[k][2]]]
         \o <<TextPart("\n")>>

FramingParts ==
    <<TextPart("Please evaluate the provided application code and point out both code-level issues and opportunities to make the AI code review workflow itself more effective. Consider how files are processed before they are sent to you, how the API payload is constructed, and how prompts could better guide future reviews.\n\n"),
      TextPart("## Module Architecture\n\n"),
      TextPart("The codebase is organized into layers:\n"),
      TextPart("- **Configuration Layer** (config.py): Settings, constants, prompts\n"),
      TextPart("- **Processing Layer** (utils.py): File handling, validation, prompt construction\n"),
      TextPart("- **API Layer** (reviewer.py): OpenRouter integration, streaming, error handling\n"),
      TextPart("- **UI Layer** (app.py): Streamlit interface, orchestration\n\n")>>

SharedParts(shared_imports) ==
    IF shared_imports = <<>> THEN <<>>
    ELSE <<TextPart("## Shared Patterns\n\n"),
           TextPart("Common imports used across multiple files:\n")>>
         \o [k \in 1..Len(shared_imports) |-> [part |-> "- '{imp}'\n", imp |-> shared_imports[k]]]
         \o <<TextPart("\n")>>

ReportParts(warns) ==
    IF warns = None \/ Get(warns) = <<>>
    THEN <<TextPart("## File Processing Report\n\n"),
           TextPart("- All files processed successfully\n\n")>>
    ELSE <<TextPart("## File Processing Report\n\n"), TextPart("**Issues Encountered:**\n")>>
         \o [k \in 1..Len(Get(warns)) |->
                [part |-> "- {clean_warning}\n", clean_warning |-> CleanWarning(Get(warns)[k])]]
         \o <<TextPart("\n")>>

ManifestParts(ordered_contents) ==
    <<TextPart("## Files to Analyze\n\n")>>
    \o [i \in 1..Len(ordered_contents) |->
            [part |-> "{i}. **{filename}** ({lines} lines, {chars} chars, {lang})\n",
             i |-> i,
             filename |-> ordered_contents[i].filename,
             lines |-> CountLines(ordered_contents[i].content),
             chars |-> Len(ordered_contents[i].content),
             lang |-> Lang(ordered_contents[i].filename)]]
    \o <<TextPart("\n============================================================\n\n")>>

RECURSIVE FileParts(_)
FileParts(ordered_contents) ==
    IF ordered_contents = <<>> THEN <<>>
    ELSE <<[part |-> "### FILE: {}\n\n", filename |-> Head(ordered_contents).filename],
           [part |-> "'''\n{}\n'''\n\n", content |-> Head(ordered_contents).content]>>
         \o FileParts(Tail(ordered_contents))

\* lines 486-487; iter is the order in which each set of import names is iterated
OrderedContents(code_files, iter) == detect_dependencies(prioritize_files(code_files), iter)

\* the sets of import names line 487 iterates
PromptIterationOrders(code_files) == IterationOrders(ImportMap(prioritize_files(code_files)))

\* [exc, prompt]: the exception raised, or the parts of the returned string
construct_user_prompt(code_files, warns, review_context, iter) ==
    LET project_context == detect_project_context(code_files)
        ordered_contents == OrderedContents(code_files, iter)
        file_tree == BuildTree(ordered_contents, 1, <<>>)
        redundancy_info == detect_redundancy(ordered_contents)
    IN  IF file_tree = None THEN [exc |-> Some("TypeError"), prompt |-> None]
        ELSE [exc |-> None,
              prompt |-> Some(MetadataParts(ordered_contents)
                              \o ContextParts(project_context)
                              \o TreeParts(Get(file_tree))
                              \o ReviewContextParts(review_context)
                              \o FramingParts
                              \o SharedParts(SharedImports(redundancy_info))
                              \o ReportParts(warns)
                              \o ManifestParts(ordered_contents)
                              \o FileParts(ordered_contents))]

\* --------------------------------------------- validate_and_estimate_tokens
\* reviewer.py line 15, scaled from 200000; like it, a multiple of 4, so that
\* MAX_REQUEST_TOKENS * 0.75 is a whole number
MAX_REQUEST_TOKENS == 12

\* int(len(user_prompt) * ESTIMATED_TOKENS_PER_CHAR) with ESTIMATED_TOKENS_PER_CHAR = 0.25:
\* the product is exact in double precision and int() drops the fraction
EstimatedTokens(user_prompt) == Len(user_prompt) \div 4

\* estimated_tokens > MAX_REQUEST_TOKENS (line 66)
IsTooLarge(estimated_tokens) == estimated_tokens > MAX_REQUEST_TOKENS

\* mutant: the warning starts at 75% of the limit
IsLargeRequest_AtThreshold(estimated_tokens) == 4 * estimated_tokens >= 3 * MAX_REQUEST_TOKENS

\* estimated_tokens > MAX_REQUEST_TOKENS * 0.75 (line 74)
IsLargeRequest(estimated_tokens) == 4 * estimated_tokens > 3 * MAX_REQUEST_TOKENS

\* the messages: the text of the f-string with its fields left as written, and
\* the values of the fields
PROMPT_IS_EMPTY == [text |-> <<"Prompt is empty">>]
RequestTooLarge(estimated_tokens) ==
    [text |-> <<"Request too large: ~{estimated_tokens} tokens (limit: {MAX_REQUEST_TOKENS}). Try uploading fewer or smaller files.">>,
     estimated_tokens |-> estimated_tokens, limit |-> MAX_REQUEST_TOKENS]
LargeRequest(estimated_tokens) ==
    [text |-> WARNING_SIGN \o <<" Large request: ~{estimated_tokens} tokens (limit: {MAX_REQUEST_TOKENS}). Response may be truncated.">>,
     estimated_tokens |-> estimated_tokens, limit |-> MAX_REQUEST_TOKENS]
RequestSizeOK(estimated_tokens) ==
    [text |-> CHECK_MARK \o <<" Request size OK: ~{estimated_tokens} tokens">>,
     estimated_tokens |-> estimated_tokens]

\* lines 55-82: (is_valid, message, estimated_tokens)
validate_and_estimate_tokens(user_prompt) ==
    IF user_prompt = <<>> THEN <<FALSE, PROMPT_IS_EMPTY, 0>>
    ELSE LET estimated_tokens == EstimatedTokens(user_prompt)
         IN  IF IsTooLarge(estimated_tokens)
                THEN <<FALSE, RequestTooLarge(estimated_tokens), estimated_tokens>>
             ELSE IF IsLargeRequest(estimated_tokens)
                THEN <<TRUE, LargeRequest(estimated_tokens), estimated_tokens>>
             ELSE <<TRUE, RequestSizeOK(estimated_tokens), estimated_tokens>>

\* ------------------------------------------------------ the chat transport
\* a Python dict: its items, in insertion order, as <<key, value>> pairs
DictObject(items) == [type |-> "dict", value |-> items]
CHOICES == <<"c", "h", "o", "i", "c", "e", "s">>
DELTA == <<"d", "e", "l", "t", "a">>
CONTENT == <<"c", "o", "n", "t", "e", "n", "t">>
ROLE == <<"r", "o", "l", "e">>

\* the value of an expression: the exception it raises, or its value
Ok(v) == [exc |-> None, value |-> v]
Throw(class) == [exc |-> Some(class), value |-> NoneObject]

DictHas(d, key) == \E i \in 1..Len(d.value) : d.value[i][1] = key
DictAt(d, key) == d.value[CHOOSE i \in 1..Len(d.value) : d.value[i][1] = key][2]

\* key in obj
PyContains(key, obj) ==
    IF obj.type = "dict" THEN Ok(DictHas(obj, key))
    ELSE IF obj.type = "list" THEN Ok(\E i \in 1..Len(obj.value) : obj.value[i] = Str(key))
    ELSE IF obj.type = "str" THEN Ok(Contains(obj.value, key))
    ELSE Throw("TypeError")

\* len(obj)
PyLen(obj) ==
    IF obj.type \in {"dict", "list", "str"} THEN Ok(Len(obj.value)) ELSE Throw("TypeError")

\* obj[key] for a str key
PySubscript(obj, key) ==
    IF obj.type = "dict" THEN (IF DictHas(obj, key) THEN Ok(DictAt(obj, key)) ELSE Throw("KeyError"))
    ELSE Throw("TypeError")

\* obj[0]
PyFirst(obj) ==
    IF obj.type = "list" THEN (IF obj.value = <<>> THEN Throw("IndexError") ELSE Ok(obj.value[1]))
    ELSE IF obj.type = "str" THEN (IF obj.value = <<>> THEN Throw("IndexError") ELSE Ok(Str(<<obj.value[1]>>)))
    ELSE IF obj.type = "dict" THEN Throw("KeyError")
    ELSE Throw("TypeError")

\* obj.get(key, default)
PyGet(obj, key, default) ==
    IF obj.type = "dict" THEN Ok(IF DictHas(obj, key) THEN DictAt(obj, key) ELSE default)
    ELSE Throw("AttributeError")

\* one line of response.iter_lines(): no bytes; bytes that are not UTF-8; or a
\* text, which starts with 'data: ' or does not, and whose remainder is the
\* sentinel, a JSON document, or neither
BlankLine == [bytes |-> FALSE, utf8 |-> TRUE, marker |-> FALSE, payload |-> "", json |-> NoneObject]
UndecodableLine == [bytes |-> TRUE, utf8 |-> FALSE, marker |-> FALSE, payload |-> "", json |-> NoneObject]
CommentLine == [bytes |-> TRUE, utf8 |-> TRUE, marker |-> FALSE, payload |-> ": OPENROUTER PROCESSING", json |-> NoneObject]
DoneLine == [bytes |-> TRUE, utf8 |-> TRUE, marker |-> TRUE, payload |-> "[DONE]", json |-> NoneObject]
MalformedLine == [bytes |-> TRUE, utf8 |-> TRUE, marker |-> TRUE, payload |-> "{", json |-> NoneObject]
JsonLine(document) == [bytes |-> TRUE, utf8 |-> TRUE, marker |-> TRUE, payload |-> "json", json |-> document]

\* {"choices": [{"delta": delta}]}
ChunkOf(delta) == DictObject(<< <<CHOICES, ListObject(<<DictObject(<< <<DELTA, delta>> >>)>>)>> >>)
\* a content delta: {"choices": [{"delta": {"content": content}}]}
DeltaLine(content) == JsonLine(ChunkOf(DictObject(<< <<CONTENT, content>> >>)))
\* a delta without content: {"choices": [{"delta": {"role": "assistant"}}]}
RoleLine == JsonLine(ChunkOf(DictObject(<< <<ROLE, Str(<<"a", "s", "s", "i", "s", "t", "a", "n", "t">>)>> >>)))
\* unexpected structures: {"choices": ["x"]}, {"choices": []}, 5
StringChoiceLine == JsonLine(DictObject(<< <<CHOICES, ListObject(<<Str(<<"x">>)>>)>> >>))
NoChoiceLine == JsonLine(DictObject(<< <<CHOICES, ListObject(<<>>)>> >>))
NumberLine == JsonLine(IntObject(5))

\* the exceptions of requests with their base classes, the class itself included
Bases ==
    [HTTPError |-> {"HTTPError", "RequestException", "Exception"},
     ConnectTimeout |-> {"ConnectTimeout", "ConnectionError", "Timeout", "RequestException", "Exception"},
     ReadTimeout |-> {"ReadTimeout", "Timeout", "RequestException", "Exception"},
     Timeout |-> {"Timeout", "RequestException", "Exception"},
     ConnectionError |-> {"ConnectionError", "RequestException", "Exception"},
     ChunkedEncodingError |-> {"ChunkedEncodingError", "RequestException", "Exception"},
     InvalidHeader |-> {"InvalidHeader", "RequestException", "Exception"},
     RuntimeError |-> {"RuntimeError", "Exception"}]
IsA(class, base) == base \in Bases[class]

\* what requests.post(...) followed by response.raise_for_status() comes to: a
\* response with a status below 400, an HTTPError that carries the status and
\* the error message of the body, or another exception
OkResponse == [raises |-> None, status |-> 200, detail |-> <<>>]
HTTPErrorOf(status, detail) == [raises |-> Some("HTTPError"), status |-> status, detail |-> detail]
Failure(class) == [raises |-> Some(class), status |-> 0, detail |-> <<>>]
ERROR_DETAIL == <<"error.message">>
PostOutcomes ==
    {OkResponse}
    \cup {HTTPErrorOf(status, <<>>) : status \in {401, 429, 402, 503, 500}}
    \cup {HTTPErrorOf(500, ERROR_DETAIL)}
    \cup {Failure(class) : class \in {"ConnectTimeout", "ReadTimeout", "ConnectionError",
                                      "InvalidHeader", "RuntimeError"}}
\* the exceptions response.iter_lines() raises when the connection breaks
BodyFailures == {"ChunkedEncodingError", "ConnectionError", "Timeout"}

\* ------------------------------------------------------- stream_grok_review
\* the texts the generator yields besides the deltas; a text is cut into pieces
\* where a later definition looks for a word in it
INVALID_API_KEY == Str(<<"U+274C", " **Error**: Invalid API key provided.">>)
INVALID_PROMPT == Str(<<"U+274C", " **Error**: Invalid prompt provided.">>)
\* f"<cross mark> **Request Too Large**: {size_message}"
RequestTooLargeChunk(size_message) == Str(<<"U+274C", " **Request Too Large**: ">> \o size_message.text)
\* f"{size_message}\n\n"
SizeWarningChunk(size_message) == Str(size_message.text \o <<"\n\n">>)
\* f"*Request ID: '{request_id}'*\n\n", request_id being eight characters of a fresh uuid4
REQUEST_ID_CHUNK == Str(<<"*Request ID: '{request_id}'*\n\n">>)

AUTHENTICATION_ERROR == Str(<<"U+274C", " **", "Authentication", " Error**: Invalid API key. Please verify your OpenRouter credentials at https://openrouter.ai/keys">>)
RATE_LIMIT_EXCEEDED == Str(<<"U+23F1", "U+FE0F", " **Rate Limit Exceeded**: Too many requests. Please wait a few minutes or check your OpenRouter quota at https://openrouter.ai/activity">>)
PAYMENT_REQUIRED == Str(<<"U+1F4B3", " **Payment Required**: Insufficient credits. Please add credits to your OpenRouter account.">>)
SERVICE_UNAVAILABLE == Str(<<"U+1F527", " **Service Unavailable**: The AI model is temporarily unavailable. Please try again in a few minutes.">>)
\* f"<cross mark> **HTTP Error {error_code}**: {str(e)}{detail}\n\nPlease check ..."
HTTPErrorChunk(error_code, error_detail) ==
    Str(<<"U+274C", " **HTTP Error ", ToString(error_code), "**: {str(e)}">>
        \o (IF error_detail # <<>> THEN <<" - ">> \o error_detail ELSE <<>>)
        \o <<"\n\nPlease check the OpenRouter status page or try a different model.">>)
TIMEOUT_ERROR == Str(<<"U+23F1", "U+FE0F", " **Timeout Error**: The request took too long (30 seconds). Please try again with smaller files or check your internet connection.">>)
CONNECTION_ERROR == Str(<<"U+1F310", " **Connection Error**: Could not connect to OpenRouter. Please check your internet connection and try again.">>)
NETWORK_ERROR == Str(<<"U+274C", " **Network Error**: {str(e)}\n\nPlease check your internet connection and try again.">>)
UNEXPECTED_ERROR == Str(<<"U+274C", " **Unexpected Error**: An unexpected error occurred: {str(e)}\n\nPlease try again or contact support.">>)

\* lines 176-206: the chunk the except clauses yield for an exception raised in
\* the try block, the first clause whose class the exception is an instance of
ErrorChunk(failure) ==
    LET class == Get(failure.raises)
    IN  IF IsA(class, "HTTPError") THEN
            (IF failure.status = 401 THEN AUTHENTICATION_ERROR
             ELSE IF failure.status = 429 THEN RATE_LIMIT_EXCEEDED
             ELSE IF failure.status = 402 THEN PAYMENT_REQUIRED
             ELSE IF failure.status = 503 THEN SERVICE_UNAVAILABLE
             ELSE HTTPErrorChunk(failure.status, failure.detail))
        ELSE IF IsA(class, "Timeout") THEN TIMEOUT_ERROR
        ELSE IF IsA(class, "ConnectionError") THEN CONNECTION_ERROR
        ELSE IF IsA(class, "RequestException") THEN NETWORK_ERROR
        ELSE UNEXPECTED_ERROR

\* what one line of the body comes to: the loop goes on, yields a chunk and goes
\* on, or breaks
Skip == [break |-> FALSE, yields |-> None]
Yield(chunk) == [break |-> FALSE, yields |-> Some(chunk)]
Break == [break |-> TRUE, yields |-> None]

\* lines 161-166: the content the parsed chunk holds, if it holds one, or the
\* exception the look-up raises
GrokDelta(chunk) ==
    LET has_choices == PyContains(CHOICES, chunk)
        choices == PySubscript(chunk, CHOICES)
        length == PyLen(choices.value)
        first == PyFirst(choices.value)
        delta == PyGet(first.value, DELTA, DictObject(<<>>))
        has_content == PyContains(CONTENT, delta.value)
        content == PySubscript(delta.value, CONTENT)
    IN  IF has_choices.exc # None THEN has_choices
        ELSE IF ~has_choices.value THEN Ok(None)
        ELSE IF choices.exc # None THEN choices
        ELSE IF length.exc # None THEN length
        ELSE IF ~(length.value > 0) THEN Ok(None)
        ELSE IF first.exc # None THEN first
        ELSE IF delta.exc # None THEN delta
        ELSE IF has_content.exc # None THEN has_content
        ELSE IF ~has_content.value THEN Ok(None)
        ELSE IF content.exc # None THEN content
        ELSE Ok(Some(content.value))

\* mutant: a line that is no JSON ends the loop
GrokLine_BreakOnBadJson(line) ==
    IF ~line.bytes \/ ~line.utf8 \/ ~line.marker THEN Skip
    ELSE IF line.payload # "json" THEN Break
    ELSE LET found == GrokDelta(line.json)
         IN  IF found.exc # None \/ found.value = None THEN Skip ELSE Yield(Get(found.value))

\* lines 148-175, the body of the for loop; every exception of the look-up is
\* caught by the clause of line 170 or by the one of line 173, and both go on
GrokLine(line) ==
    IF ~line.bytes THEN Skip
    ELSE IF ~line.utf8 THEN Skip
    ELSE IF ~line.marker THEN Skip
    ELSE IF line.payload = "[DONE]" THEN Break
    ELSE IF line.payload # "json" THEN Skip
    ELSE LET found == GrokDelta(line.json)
         IN  IF found.exc # None THEN Skip
             ELSE IF found.value = None THEN Skip
             ELSE Yield(Get(found.value))

\* the generator as its caller sees it: where it stands, the chunks it has
\* yielded, the lines it has taken from the response, whether the POST was
\* issued, how the transport failed, and the exception it raised to the caller
NewGenerator ==
    [pc |-> "start", chunks |-> <<>>, received |-> <<>>, posted |-> FALSE,
     failure |-> None, exc |-> None]

\* mutant: the size is reported and the request is made all the same
GrokStart_PostAnyway(gen, api_key, user_prompt) ==
    IF ~Truthy(api_key) \/ ~IsInstanceStr(api_key)
        THEN [gen EXCEPT !.chunks = <<INVALID_API_KEY>>, !.pc = "end"]
    ELSE IF ~Truthy(user_prompt) \/ ~IsInstanceStr(user_prompt)
        THEN [gen EXCEPT !.chunks = <<INVALID_PROMPT>>, !.pc = "end"]
    ELSE LET validation == validate_and_estimate_tokens(user_prompt.value)
         IN  [gen EXCEPT !.chunks = IF validation[1] THEN <<REQUEST_ID_CHUNK>>
                                    ELSE <<RequestTooLargeChunk(validation[2])>>,
                         !.pc = "post"]

\* lines 94-120: the checks of the arguments and the chunks yielded before the request
GrokStart(gen, api_key, user_prompt) ==
    IF ~Truthy(api_key) \/ ~IsInstanceStr(api_key)
        THEN [gen EXCEPT !.chunks = <<INVALID_API_KEY>>, !.pc = "end"]
    ELSE IF ~Truthy(user_prompt) \/ ~IsInstanceStr(user_prompt)
        THEN [gen EXCEPT !.chunks = <<INVALID_PROMPT>>, !.pc = "end"]
    ELSE LET validation == validate_and_estimate_tokens(user_prompt.value)
             is_valid == validation[1]
             size_message == validation[2]
         IN  IF ~is_valid
                THEN [gen EXCEPT !.chunks = <<RequestTooLargeChunk(size_message)>>, !.pc = "end"]
             ELSE [gen EXCEPT !.chunks = (IF Contains(size_message.text, WARNING_SIGN)
                                             THEN <<SizeWarningChunk(size_message)>> ELSE <<>>)
                                         \o <<REQUEST_ID_CHUNK>>,
                              !.pc = "post"]

\* lines 143-144 with the except clauses: the request and raise_for_status
GrokPost(gen, outcome) ==
    IF outcome.raises = None THEN [gen EXCEPT !.posted = TRUE, !.pc = "body"]
    ELSE [gen EXCEPT !.posted = TRUE, !.failure = Some(outcome),
                     !.chunks = Append(@, ErrorChunk(outcome)), !.pc = "end"]

\* lines 147-175: the for loop takes one more line
GrokTakeLine(gen, line) ==
    LET step == GrokLine(line)
    IN  [gen EXCEPT !.received = Append(@, line),
                    !.chunks = IF step.yields = None THEN @ ELSE Append(@, Get(step.yields)),
                    !.pc = IF step.break THEN "end" ELSE @]

\* mutant: the error message replaces what was yielded
GrokBodyFails_OnlyError(gen, class) ==
    [gen EXCEPT !.failure = Some(Failure(class)),
                !.chunks = <<ErrorChunk(Failure(class))>>, !.pc = "end"]

\* line 147 with the except clauses: iter_lines raises instead of giving a line
GrokBodyFails(gen, class) ==
    [gen EXCEPT !.failure = Some(Failure(class)),
                !.chunks = Append(@, ErrorChunk(Failure(class))), !.pc = "end"]

\* line 147: iter_lines has no more lines
BodyEnds(gen) == [gen EXCEPT !.pc = "end"]

\* -------------------------------------------------------------- stream_chat
\* openrouter_client.py lines 39-40: nothing catches what the request raises
ChatPost(gen, outcome) ==
    IF outcome.raises = None THEN [gen EXCEPT !.posted = TRUE, !.pc = "body"]
    ELSE [gen EXCEPT !.posted = TRUE, !.failure = Some(outcome),
                     !.exc = outcome.raises, !.pc = "raised"]

\* lines 56-61: the content the parsed chunk holds, if it is truthy
ChatDelta(chunk) ==
    LET has_choices == PyContains(CHOICES, chunk)
        choices == PySubscript(chunk, CHOICES)
        first == PyFirst(choices.value)
        delta == PyGet(first.value, DELTA, DictObject(<<>>))
        content == PyGet(delta.value, CONTENT, NoneObject)
    IN  IF has_choices.exc # None THEN has_choices
        ELSE IF ~has_choices.value THEN Ok(None)
        ELSE IF choices.exc # None THEN choices
        ELSE IF ~Truthy(choices.value) THEN Ok(None)
        ELSE IF first.exc # None THEN first
        ELSE IF delta.exc # None THEN delta
        ELSE IF content.exc # None THEN content
        ELSE IF Truthy(content.value) THEN Ok(Some(content.value))
        ELSE Ok(None)

\* mutant: the sentinel is passed over like a line that is no JSON
ChatLine_SkipsSentinel(line) ==
    IF ~line.bytes \/ ~line.utf8 \/ ~line.marker THEN Skip
    ELSE IF line.payload # "json" THEN Skip
    ELSE LET found == ChatDelta(line.json)
         IN  IF found.exc # None \/ found.value = None THEN Skip ELSE Yield(Get(found.value))

\* lines 43-67, the body of the for loop
ChatLine(line) ==
    IF ~line.bytes THEN Skip
    ELSE IF ~line.utf8 THEN Skip
    ELSE IF ~line.marker THEN Skip
    ELSE IF line.payload = "[DONE]" THEN Break
    ELSE IF line.payload # "json" THEN Skip
    ELSE LET found == ChatDelta(line.json)
         IN  IF found.exc # None THEN Skip
             ELSE IF found.value = None THEN Skip
             ELSE Yield(Get(found.value))

\* lines 42-67: the for loop takes one more line
ChatTakeLine(gen, line) ==
    LET step == ChatLine(line)
    IN  [gen EXCEPT !.received = Append(@, line),
                    !.chunks = IF step.yields = None THEN @ ELSE Append(@, Get(step.yields)),
                    !.pc = IF step.break THEN "end" ELSE @]

\* line 42: iter_lines raises, and nothing catches it
ChatBodyFails(gen, class) ==
    [gen EXCEPT !.failure = Some(Failure(class)), !.exc = Some(class), !.pc = "raised"]

\* --------------------------------------------------- stream_enhanced_review
\* app.py line 188, timedelta(days=7), scaled; time is counted in days
CACHE_DAYS == 2

\* str.split(): the words between runs of white space
RECURSIVE PySplit(_)
PySplit(text) ==
    IF text = <<>> THEN <<>>
    ELSE IF IsSpace(text[1]) THEN PySplit(Tail(text))
    ELSE LET stops == {i \in 1..Len(text) : IsSpace(text[i])}
             stop == IF stops = {} THEN Len(text) + 1
                     ELSE CHOOSE i \in stops : \A j \in stops : i <= j
         IN  <<SubSeq(text, 1, stop - 1)>> \o PySplit(SubSeq(text, stop, Len(text)))

\* hashlib.sha256(user_prompt.encode()).hexdigest() (line 609): a digest that
\* is the same for equal prompts and, no collision being known, differs for
\* different ones
Sha256Hex(user_prompt) == <<"sha256", user_prompt>>

\* a row of the table review_cache (lines 157-165)
Row(content_hash, review_content, model, mode, created_at) ==
    [content_hash |-> content_hash, review_content |-> review_content, model |-> model,
     mode |-> mode, created_at |-> created_at]

\* lines 182-208: the row with this hash whose created_at is after the cutoff,
\* as a ReviewResult, or None; content_hash is UNIQUE, so there is one at most
get_cached_review(database, content_hash, now) ==
    LET cutoff_date == now - CACHE_DAYS
        result == {row \in database : row.content_hash = content_hash /\ row.created_at > cutoff_date}
    IN  IF result = {} THEN None
        ELSE LET row == CHOOSE row \in result : TRUE
             IN  Some([content |-> row.review_content, model |-> row.model, mode |-> row.mode,
                       timestamp |-> row.created_at])

\* lines 210-222: INSERT OR REPLACE on the UNIQUE content_hash; created_at
\* takes its default, the current time
cache_review(database, content_hash, review, model, mode, now) ==
    {row \in database : row.content_hash # content_hash}
        \cup {Row(content_hash, review, model, mode, now)}

\* the pairs the generator yields: the text and, of the metadata, status and cached
CachedChunk(word) == [text |-> Str(word \o <<" ">>), status |-> "streaming_cached", cached |-> TRUE]
StreamedChunk(content) == [text |-> content, status |-> "streaming", cached |-> FALSE]
ENHANCED_ERROR == Str(<<"U+274C", " **Error**: {str(e)}">>)
EnhancedErrorChunk == [text |-> ENHANCED_ERROR, status |-> "error", cached |-> FALSE]

\* lines 615-621: one chunk for each word of the cached text
CachedChunks(content) == [k \in 1..Len(PySplit(content)) |-> CachedChunk(PySplit(content)[k])]

\* the generator as its caller sees it, with its local full_response and
\* cached_result
NewEnhanced ==
    [pc |-> "start", chunks |-> <<>>, received |-> <<>>, posted |-> FALSE, failure |-> None,
     full_response |-> <<>>, cached_result |-> None]

\* lines 608-622: the look-up; a hit is streamed word by word and the
\* generator returns
EnhancedStart(gen, database, now, user_prompt, enable_caching) ==
    LET content_hash == Sha256Hex(user_prompt)
        cached_result == IF enable_caching THEN get_cached_review(database, content_hash, now)
                         ELSE None
    IN  IF cached_result # None
            THEN [gen EXCEPT !.cached_result = cached_result,
                             !.chunks = CachedChunks(Get(cached_result).content),
                             !.pc = "end"]
        ELSE [gen EXCEPT !.pc = "post"]

\* lines 656-657 with the except clause of line 689
EnhancedPost(gen, outcome) ==
    IF outcome.raises = None THEN [gen EXCEPT !.posted = TRUE, !.pc = "body"]
    ELSE [gen EXCEPT !.posted = TRUE, !.failure = Some(outcome),
                     !.chunks = Append(@, EnhancedErrorChunk), !.pc = "end"]

\* lines 671-675: the same look-up as lines 161-166 of reviewer.py
EnhancedDelta(chunk) == GrokDelta(chunk)

\* lines 660-683, the body of the for loop: only JSONDecodeError is caught
\* inside the loop; full_response += content raises TypeError unless content
\* is a str
EnhancedLine(line) ==
    IF ~line.bytes THEN Ok(Skip)
    ELSE IF ~line.utf8 THEN Ok(Skip)
    ELSE IF ~line.marker THEN Ok(Skip)
    ELSE IF line.payload = "[DONE]" THEN Ok(Break)
    ELSE IF line.payload # "json" THEN Ok(Skip)
    ELSE LET found == EnhancedDelta(line.json)
         IN  IF found.exc # None THEN Throw(Get(found.exc))
             ELSE IF found.value = None THEN Ok(Skip)
             ELSE IF ~IsInstanceStr(Get(found.value)) THEN Throw("TypeError")
             ELSE Ok(Yield(Get(found.value)))

\* lines 685-687: the text is stored when caching is on and the text is not empty
EnhancedStore(database, now, gen, user_prompt, model, review_mode, enable_caching) ==
    IF enable_caching /\ gen.full_response # <<>>
        THEN cache_review(database, Sha256Hex(user_prompt), gen.full_response, model, review_mode, now)
    ELSE database

\* lines 659-690: the for loop takes one more line; what the line raises goes
\* to the except clause of line 689, past the store
EnhancedTakeLine(gen, line) ==
    LET step == EnhancedLine(line)
    IN  IF step.exc # None
            THEN [gen EXCEPT !.received = Append(@, line),
                             !.chunks = Append(@, EnhancedErrorChunk), !.pc = "end"]
        ELSE IF step.value.yields = None
            THEN [gen EXCEPT !.received = Append(@, line),
                             !.pc = IF step.value.break THEN "store" ELSE @]
        ELSE [gen EXCEPT !.received = Append(@, line),
                         !.full_response = @ \o Get(step.value.yields).value,
                         !.chunks = Append(@, StreamedChunk(Get(step.value.yields)))]

\* line 659 with the except clause: iter_lines raises instead of giving a line
EnhancedBodyFails(gen, class) ==
    [gen EXCEPT !.failure = Some(Failure(class)),
                !.chunks = Append(@, EnhancedErrorChunk), !.pc = "end"]

\* ------------------------------------------ specification: detect_dependencies
B_PY == <<"b", ".", "p", "y">>
C_PY == <<"c", ".", "p", "y">>

\* Python source as a list of statements, and its text
ImportStatement(modules) == [kind |-> "import", modules |-> modules]
FromStatement(module, name) == [kind |-> "from", modules |-> <<module>>, name |-> name]

RECURSIVE CommaList(_)
CommaList(names) ==
    IF Len(names) = 1 THEN names[1]
    ELSE names[1] \o <<",", " ">> \o CommaList(Tail(names))

RenderStatement(stmt) ==
    IF stmt.kind = "import" THEN IMPORT \o <<" ">> \o CommaList(stmt.modules)
    ELSE FROM \o <<" ">> \o stmt.modules[1] \o <<" ">> \o IMPORT \o <<" ">> \o stmt.name

RECURSIVE Render(_)
Render(stmts) ==
    IF stmts = <<>> THEN <<>>
    ELSE IF Len(stmts) = 1 THEN RenderStatement(stmts[1])
    ELSE RenderStatement(stmts[1]) \o <<"\n">> \o Render(Tail(stmts))

Mod_a == <<"a">>
Mod_b == <<"b">>
Mod_c == <<"c">>
Mod_os == <<"o", "s">>
Name_x == <<"x">>

SourcePool ==
    [a |-> {<<>>,
            <<ImportStatement(<<Mod_b>>)>>,
            <<ImportStatement(<<Mod_b, Mod_c>>)>>,
            <<ImportStatement(<<Mod_b>>), ImportStatement(<<Mod_c>>)>>,
            <<FromStatement(Mod_b, Name_x)>>},
     b |-> {<<>>,
            <<ImportStatement(<<Mod_c>>)>>,
            <<ImportStatement(<<Mod_a>>)>>,
            <<FromStatement(Mod_c, Mod_a)>>},
     c |-> {<<>>,
            <<ImportStatement(<<Mod_a>>)>>,
            <<ImportStatement(<<Mod_os>>)>>}]

StatementLists == SourcePool.a \cup SourcePool.b \cup SourcePool.c

DependencyPool ==
    {CodeFile(A_PY, Render(stmts)) : stmts \in SourcePool.a}
    \cup {CodeFile(B_PY, Render(stmts)) : stmts \in SourcePool.b}
    \cup {CodeFile(C_PY, Render(stmts)) : stmts \in SourcePool.c}

InitDependencies ==
    /\ IdleIngest
    /\ args \in [fn : {"detect_dependencies"}, code_contents : SeqsUpTo(DependencyPool, MaxFiles)]
    /\ ret = None

\* the call; each set of imports is iterated in one of its orders
CallDependencies ==
    /\ pc = "pure"
    /\ ret = None
    /\ args.fn = "detect_dependencies"
    /\ \E iter \in IterationOrders(ImportMap(args.code_contents)) :
            ret' = Some(detect_dependencies(args.code_contents, iter))
    /\ UNCHANGED <<args, ingestVars>>

NextDependencies == CallDependencies

SpecDependencies == InitDependencies /\ [][NextDependencies]_vars

\* --------------------------------------------- specification: prioritize_files
MAIN_PY == <<"m", "a", "i", "n", ".", "p", "y">>
MAIN_UPPER == <<"M", "A", "I", "N", ".", "P", "Y">>
CONFIG_PY == <<"c", "o", "n", "f", "i", "g", ".", "p", "y">>
UTILS_PY == <<"u", "t", "i", "l", "s", ".", "p", "y">>
AUTH_PY == <<"a", "u", "t", "h", ".", "p", "y">>
TEST_MAIN_PY == <<"t", "e", "s", "t", "_", "m", "a", "i", "n", ".", "p", "y">>

\* a text of n characters
Text(n) == [k \in 1..n |-> "x"]
SmallText == Text(SMALL_CONTENT - 1)
MediumText == Text(SMALL_CONTENT)
LargeText == Text(LARGE_CONTENT + 1)

PriorityPool ==
    {CodeFile(MAIN_PY, MediumText), CodeFile(MAIN_UPPER, MediumText), CodeFile(MAIN_PY, SmallText),
     CodeFile(CONFIG_PY, MediumText), CodeFile(CONFIG_PY, LargeText),
     CodeFile(UTILS_PY, MediumText), CodeFile(AUTH_PY, LargeText), CodeFile(AUTH_PY, MediumText),
     CodeFile(TEST_MAIN_PY, MediumText),
     CodeFile(A_PY, MediumText), CodeFile(B_PY, MediumText), CodeFile(B_PY, SmallText)}

InitPrioritize ==
    /\ IdleIngest
    /\ args \in [fn : {"prioritize_files"}, code_contents : SeqsUpTo(PriorityPool, MaxFiles)]
    /\ ret = None

CallPrioritize ==
    /\ pc = "pure"
    /\ ret = None
    /\ args.fn = "prioritize_files"
    /\ ret' = Some(prioritize_files(args.code_contents))
    /\ UNCHANGED <<args, ingestVars>>

NextPrioritize == CallPrioritize

SpecPrioritize == InitPrioritize /\ [][NextPrioritize]_vars

\* ---------------------------------------- specification: construct_user_prompt
D_A_PY == <<"d", "/", "a", ".", "p", "y">>
A_PY_B_PY == <<"a", ".", "p", "y", "/", "b", ".", "p", "y">>
TEST_A_PY == <<"t", "e", "s", "t", "_", "a", ".", "p", "y">>

IMPORT_A == Render(<<ImportStatement(<<Mod_a>>)>>)
IMPORT_C == Render(<<ImportStatement(<<Mod_c>>)>>)
IMPORT_B_IMPORT_C == Render(<<ImportStatement(<<Mod_b>>), ImportStatement(<<Mod_c>>)>>)

PromptPool ==
    {CodeFile(A_PY, IMPORT_B_IMPORT_C), CodeFile(B_PY, IMPORT_C), CodeFile(B_PY, IMPORT_A),
     CodeFile(C_PY, <<>>), CodeFile(MAIN_PY, IMPORT_B_IMPORT_C), CodeFile(D_A_PY, IMPORT_C),
     CodeFile(A_PY_B_PY, IMPORT_C), CodeFile(TEST_A_PY, IMPORT_A)}

TRUNCATED_WARNING == WARNING_SIGN \o <<" ", "F", "i", "l", "e", " ", "'", "a", ".", "p", "y", "'", " ", "t", "r", "u", "n", "c", "a", "t", "e", "d", " ", "t", "o", " ", "1", "0", "M", "B">>

ReviewContexts == {None, Some(<< <<<<"R", "e", "v", "i", "e", "w", " ", "m", "o", "d", "e">>, <<"R", "e", "f", "a", "c", "t", "o", "r">>>> >>)}

InitPrompt ==
    /\ IdleIngest
    /\ args \in [fn : {"construct_user_prompt"},
                 code_contents : SeqsUpTo(PromptPool, MaxFiles),
                 warnings : {None, Some(<<TRUNCATED_WARNING>>)},
                 review_context : ReviewContexts]
    /\ ret = <<>>

\* one call of construct_user_prompt with the arguments; ret collects what the
\* calls returned.  Each call iterates the sets of import names in some order.
CallPrompt ==
    /\ pc = "pure"
    /\ args.fn = "construct_user_prompt"
    /\ Len(ret) < 2
    /\ \E iter \in PromptIterationOrders(args.code_contents) :
            ret' = Append(ret, construct_user_prompt(args.code_contents, args.warnings,
                                                     args.review_context, iter))
    /\ UNCHANGED <<args, ingestVars>>

NextPrompt == CallPrompt

SpecPrompt == InitPrompt /\ [][NextPrompt]_vars

\* --------------------------------- specification: validate_and_estimate_tokens
\* the prompts: every length up to MaxPromptLen, which passes the length whose
\* estimate is MAX_REQUEST_TOKENS + 1
Prompts == {Text(n) : n \in 0..MaxPromptLen}

InitValidate ==
    /\ IdleIngest
    /\ args \in [fn : {"validate_and_estimate_tokens"}, user_prompt : Prompts]
    /\ ret = None

CallValidate ==
    /\ pc = "pure"
    /\ args.fn = "validate_and_estimate_tokens"
    /\ ret = None
    /\ ret' = Some(validate_and_estimate_tokens(args.user_prompt))
    /\ UNCHANGED <<args, ingestVars>>

NextValidate == CallValidate

SpecValidate == InitValidate /\ [][NextValidate]_vars

\* --------------------------------------- specification: the streaming clients
STREAM_GROK_REVIEW == "stream_grok_review"
STREAM_CHAT == "stream_chat"

API_KEY == Str(<<"k">>)
ApiKeys == {API_KEY, Str(<<>>), NoneObject}
\* prompts: empty, of a size that passes, of a size that passes with the warning,
\* too large, and not a str
OK_PROMPT == Str(Text(1))
LARGE_PROMPT == Str(Text(4 * MAX_REQUEST_TOKENS - 4))
TOO_LARGE_PROMPT == Str(Text(4 * MAX_REQUEST_TOKENS + 4))
StreamPrompts == {Str(<<>>), OK_PROMPT, LARGE_PROMPT, TOO_LARGE_PROMPT, NoneObject}

\* the lines a response can be made of
LinePool ==
    {DeltaLine(Str(<<"a">>)), DeltaLine(Str(<<"b">>)), DeltaLine(Str(<<>>)), DeltaLine(NoneObject),
     DeltaLine(IntObject(5)), RoleLine, BlankLine, CommentLine, UndecodableLine, MalformedLine,
     StringChoiceLine, NumberLine, DoneLine}

\* stream_chat looks at neither argument, so one pair is enumerated for it
InitStream ==
    /\ IdleIngest
    /\ args \in {a \in [fn : {STREAM_GROK_REVIEW, STREAM_CHAT}, api_key : ApiKeys,
                        user_prompt : StreamPrompts] :
                    a.fn = STREAM_CHAT => (a.api_key = API_KEY /\ a.user_prompt = OK_PROMPT)}
    /\ ret = NewGenerator

StreamGrokStart ==
    /\ pc = "pure" /\ args.fn = STREAM_GROK_REVIEW /\ ret.pc = "start"
    /\ ret' = GrokStart(ret, args.api_key, args.user_prompt)
    /\ UNCHANGED <<args, ingestVars>>

StreamGrokPost ==
    /\ pc = "pure" /\ args.fn = STREAM_GROK_REVIEW /\ ret.pc = "post"
    /\ \E outcome \in PostOutcomes : ret' = GrokPost(ret, outcome)
    /\ UNCHANGED <<args, ingestVars>>

StreamGrokLine ==
    /\ pc = "pure" /\ args.fn = STREAM_GROK_REVIEW /\ ret.pc = "body"
    /\ Len(ret.received) < MaxLines
    /\ \E line \in LinePool : ret' = GrokTakeLine(ret, line)
    /\ UNCHANGED <<args, ingestVars>>

StreamGrokBodyEnds ==
    /\ pc = "pure" /\ args.fn = STREAM_GROK_REVIEW /\ ret.pc = "body"
    /\ ret' = BodyEnds(ret)
    /\ UNCHANGED <<args, ingestVars>>

StreamGrokBodyFails ==
    /\ pc = "pure" /\ args.fn = STREAM_GROK_REVIEW /\ ret.pc = "body"
    /\ \E class \in BodyFailures : ret' = GrokBodyFails(ret, class)
    /\ UNCHANGED <<args, ingestVars>>

StreamChatPost ==
    /\ pc = "pure" /\ args.fn = STREAM_CHAT /\ ret.pc = "start"
    /\ \E outcome \in PostOutcomes : ret' = ChatPost(ret, outcome)
    /\ UNCHANGED <<args, ingestVars>>

StreamChatLine ==
    /\ pc = "pure" /\ args.fn = STREAM_CHAT /\ ret.pc = "body"
    /\ Len(ret.received) < MaxLines
    /\ \E line \in LinePool : ret' = ChatTakeLine(ret, line)
    /\ UNCHANGED <<args, ingestVars>>

StreamChatBodyEnds ==
    /\ pc = "pure" /\ args.fn = STREAM_CHAT /\ ret.pc = "body"
    /\ ret' = BodyEnds(ret)
    /\ UNCHANGED <<args, ingestVars>>

StreamChatBodyFails ==
    /\ pc = "pure" /\ args.fn = STREAM_CHAT /\ ret.pc = "body"
    /\ \E class \in BodyFailures : ret' = ChatBodyFails(ret, class)
    /\ UNCHANGED <<args, ingestVars>>

NextStream ==
    \/ StreamGrokStart \/ StreamGrokPost \/ StreamGrokLine \/ StreamGrokBodyEnds
    \/ StreamGrokBodyFails
    \/ StreamChatPost \/ StreamChatLine \/ StreamChatBodyEnds \/ StreamChatBodyFails

SpecStream == InitStream /\ [][NextStream]_vars

\* ------------------------------------- specification: stream_enhanced_review
STREAM_ENHANCED_REVIEW == "stream_enhanced_review"
MaxCalls == 2       \* calls of stream_enhanced_review on one database
MaxDays == 2        \* days that pass while the database is in use
MaxBody == 2        \* lines of one response body

GROK_4 == "x-ai/grok-4"
CLAUDE == "anthropic/claude-3.5-sonnet"
STANDARD == "Standard Review"
SECURITY_FOCUSED == "Security-Focused Review"

\* one text per estimate class is not needed here: two prompts that differ
EnhancedPrompts == {<<"x">>, <<"y">>}
EnhancedCalls ==
    [fn : {STREAM_ENHANCED_REVIEW}, user_prompt : EnhancedPrompts,
     review_mode : {STANDARD, SECURITY_FOCUSED}, model : {GROK_4, CLAUDE},
     enable_caching : BOOLEAN]

\* deltas with a line break and with spaces in them, a null content, a line
\* that is no JSON, a chunk that is a number, and the sentinel
EnhancedLinePool ==
    {DeltaLine(Str(<<"a", "\n", "b">>)), DeltaLine(Str(<<" ", "c", " ">>)), DeltaLine(NoneObject),
     MalformedLine, NumberLine, DoneLine}
EnhancedOutcomes == {OkResponse, HTTPErrorOf(401, <<>>), Failure("ConnectionError")}

InitEnhanced ==
    /\ IdleIngest
    /\ args \in EnhancedCalls
    /\ ret = [database |-> {}, now |-> 0, calls |-> 1, gen |-> NewEnhanced]

Enhancing == args.fn = STREAM_ENHANCED_REVIEW

\* the first next() up to the request: the look-up and, on a hit, the cached words
EnhancedReviewStart ==
    /\ Enhancing /\ ret.gen.pc = "start"
    /\ ret' = [ret EXCEPT !.gen = EnhancedStart(@, ret.database, ret.now, args.user_prompt,
                                                args.enable_caching)]
    /\ UNCHANGED <<args, ingestVars>>

EnhancedReviewPost ==
    /\ Enhancing /\ ret.gen.pc = "post"
    /\ \E outcome \in EnhancedOutcomes : ret' = [ret EXCEPT !.gen = EnhancedPost(@, outcome)]
    /\ UNCHANGED <<args, ingestVars>>

\* the loop has ended without an exception: lines 685-687, then the generator returns
Stored(r, gen) ==
    [r EXCEPT !.database = EnhancedStore(@, r.now, gen, args.user_prompt, args.model,
                                         args.review_mode, args.enable_caching),
              !.gen = [gen EXCEPT !.pc = "end"]]

\* one more line of the body; the sentinel ends the loop and the text is stored
EnhancedReviewLine ==
    /\ Enhancing /\ ret.gen.pc = "body"
    /\ Len(ret.gen.received) < MaxBody
    /\ \E line \in EnhancedLinePool :
         LET gen == EnhancedTakeLine(ret.gen, line)
         IN  ret' = IF gen.pc = "store" THEN Stored(ret, gen) ELSE [ret EXCEPT !.gen = gen]
    /\ UNCHANGED <<args, ingestVars>>

\* the body has no more lines
EnhancedReviewBodyEnds ==
    /\ Enhancing /\ ret.gen.pc = "body"
    /\ ret' = Stored(ret, ret.gen)
    /\ UNCHANGED <<args, ingestVars>>

EnhancedReviewBodyFails ==
    /\ Enhancing /\ ret.gen.pc = "body"
    /\ \E class \in BodyFailures : ret' = [ret EXCEPT !.gen = EnhancedBodyFails(@, class)]
    /\ UNCHANGED <<args, ingestVars>>

\* the application calls stream_enhanced_review again, on the same database
EnhancedReviewAgain ==
    /\ Enhancing /\ ret.gen.pc = "end"
    /\ ret.calls < MaxCalls
    /\ args' \in EnhancedCalls
    /\ ret' = [ret EXCEPT !.calls = @ + 1, !.gen = NewEnhanced]
    /\ UNCHANGED ingestVars

\* a day passes between two calls
DayPasses ==
    /\ Enhancing /\ ret.gen.pc = "end"
    /\ ret.now < MaxDays
    /\ ret' = [ret EXCEPT !.now = @ + 1]
    /\ UNCHANGED <<args, ingestVars>>

NextEnhanced ==
    \/ EnhancedReviewStart
    \/ EnhancedReviewPost
    \/ EnhancedReviewLine
    \/ EnhancedReviewBodyEnds
    \/ EnhancedReviewBodyFails
    \/ EnhancedReviewAgain
    \/ DayPasses

SpecEnhanced == InitEnhanced /\ [][NextEnhanced]_vars

\* ------------------------------------------------ specification: classifier
NameChars == {".", "p", "y", "P", "Y", "c", "h"}
Filenames == SeqsUpTo(NameChars, MaxNameLen)
NonStrings ==
    {NoneObject, IntObject(0), IntObject(7), BytesObject(<<>>), BytesObject(<<97, 46, 112, 121>>),
     ListObject(<<>>), ListObject(<<(<<"a", ".", "p", "y">>)>>)}

InitSupported ==
    /\ IdleIngest
    /\ args \in [fn : {"is_supported_file"}, filename : {Str(f) : f \in Filenames} \cup NonStrings]
    /\ ret = None

CallSupported ==
    /\ pc = "pure"
    /\ ret = None
    /\ args.fn = "is_supported_file"
    /\ ret' = Some(is_supported_file(args.filename))
    /\ UNCHANGED <<args, ingestVars>>

NextSupported == CallSupported

SpecSupported == InitSupported /\ [][NextSupported]_vars

\* ================================================================== claims
\* helpers of the claims, written from the claims' words

\* p with every back-slash turned into a forward slash
Slashed(p) == [i \in 1..Len(p) |-> IF p[i] = "\\" THEN "/" ELSE p[i]]

\* p has a segment that is exactly ".."
HasDotDotSegment(p) ==
    \E i \in 1..Len(p) :
        /\ i + 1 <= Len(p)
        /\ p[i] = "." /\ p[i+1] = "."
        /\ (i = 1 \/ p[i-1] = "/")
        /\ (i + 1 = Len(p) \/ p[i+2] = "/")

UnsafePath(p) == LET q == Slashed(p) IN (q # <<>> /\ q[1] = "/") \/ HasDotDotSegment(q)

TOTAL_WARNING == Warning("Total upload size exceeded {}MB. Skipping remaining files.", None)

Items == uploaded_files.items

\* the sum of the size attributes that are present and positive, over the first n items
RECURSIVE PositiveSizes(_)
PositiveSizes(n) ==
    IF n = 0 THEN 0
    ELSE PositiveSizes(n - 1)
         + (IF Items[n].size # <<>> /\ Items[n].size[1] > 0 THEN Items[n].size[1] ELSE 0)

\* the items at which the sum of the positive sizes is above the total cap
OverCap == {k \in 1..Len(Items) : PositiveSizes(k) > MAX_TOTAL_SIZE /\ Items[k].size # <<>>
                                  /\ Items[k].size[1] > 0}

\* the sum of the lengths of the contents accepted so far
RECURSIVE ContentLength(_)
ContentLength(cc) == IF cc = <<>> THEN 0 ELSE Len(cc[1].content) + ContentLength(Tail(cc))

IsPrefix(a, b) == Len(a) <= Len(b) /\ SubSeq(b, 1, Len(a)) = a

\* C1: process_uploaded_files is total: whatever the argument (an empty list, items
\* without name or size, corrupt archives, unreadable streams, undecodable bytes, a
\* non-iterable), no exception leaves the call, and what it returns is a list of
\* CodeFiles and a list of warnings.
C1_ProcessUploadedFilesTotal ==
    args.fn = "process_uploaded_files" =>
        /\ pc # "raised"
        /\ pc \in {"start", "loop", "done"}
        /\ pc = "done" =>
            /\ \A k \in 1..Len(code_contents) : DOMAIN code_contents[k] = {"filename", "content"}
            /\ \A k \in 1..Len(warnings) : DOMAIN warnings[k] = {"msg", "name"}

\* a nameless item, then a corrupt archive, then a good file, in an iterable that
\* raises: the call has returned the good file and three warnings
C1_Witness ==
    /\ pc = "done"
    /\ uploaded_files.raises
    /\ Len(Items) = 3
    /\ Items[1].name = None
    /\ Items[2].archive = None /\ Items[2].name = Some(Z_ZIP)
    /\ code_contents = <<CodeFile(A_PY, <<97, 97, 97>>)>>
    /\ Len(warnings) = 3
    /\ warnings[3].msg = "Critical error processing files: {}"

\* C2: sanitize_zip_member_path returns (no path, an error reason) for every member
\* path that, with back-slashes read as slashes, is absolute or has a ".." segment.
C2_SanitizerRejectsUnsafe ==
    (args.fn = "sanitize_zip_member_path" /\ ret # None /\ UnsafePath(args.member_name)) =>
        (ret[1][1] = None /\ ret[1][2] # None)

\* the path ..\a was rejected as a traversal
C2_Witness ==
    /\ args.fn = "sanitize_zip_member_path"
    /\ args.member_name = <<".", ".", "\\", "a">>
    /\ ret = Some(<<None, Some("path traversal")>>)

\* the outcome of an archive's entries: the CodeFiles and warnings of the call
ArchiveOutcome(infolist) ==
    LET st == ZipEntries(infolist, Frame(<<>>, <<>>, <<>>), 1, 1, MAX_FILE_SIZE)
    IN  <<st.cc, st.w>>

Rejected(file_info) == sanitize_zip_member_path(file_info.filename)[2] # None
NotRejected(file_info) == ~Rejected(file_info)

\* C3: an archive's entries whose path the sanitizer rejects add no CodeFile and no
\* warning, do not crash the call, and leave the other entries processed: the call
\* returns what it returns for the same archive without those entries.
C3_UnsafeEntriesDropped ==
    (/\ args.fn = "process_uploaded_files"
     /\ pc \in {"done", "raised"}
     /\ Len(Items) = 1 /\ ~uploaded_files.raises
     /\ Items[1].name = Some(Z_ZIP) /\ Items[1].archive # None /\ Items[1].stream = "ok"
     /\ \E j \in 1..Len(Items[1].archive[1]) : Rejected(Items[1].archive[1][j])) =>
        /\ pc = "done"
        /\ <<code_contents, warnings>> = ArchiveOutcome(SelectSeq(Items[1].archive[1], NotRejected))
        /\ \A k \in 1..Len(warnings) :
              \A j \in 1..Len(Items[1].archive[1]) :
                  Rejected(Items[1].archive[1][j]) =>
                      warnings[k].name # Some(Items[1].archive[1][j].filename)

\* an archive of ../a.py and a.py returned a.py alone, without a warning
C3_Witness ==
    /\ pc = "done"
    /\ Len(Items) = 1
    /\ Items[1].archive = Some(<<Entry(<<".", ".", "/">> \o A_PY, "ok", OK3), Entry(A_PY, "ok", OK3)>>)
    /\ code_contents = <<CodeFile(A_PY, <<97, 97, 97>>)>>
    /\ warnings = <<>>

\* C4: the step that takes the item at which the running total first exceeds the
\* total cap reads nothing, adds no CodeFile, appends the total-size warning as the
\* last warning, the only one of its kind, and ends the loop; no step takes a later
\* item.
C4_Step ==
    (OverCap # {} /\ \E k \in OverCap : idx' >= k) =>
        /\ idx' = idx + 1
        /\ \A k \in OverCap : idx' <= k
        /\ reads' = reads
        /\ code_contents' = code_contents
        /\ warnings' = Append(warnings, TOTAL_WARNING)
        /\ \A k \in 1..Len(warnings) : warnings[k] # TOTAL_WARNING
        /\ pc' = "done"

C4_StopsAtTotalCap == [][C4_Step]_vars

\* the first file was accepted, the second upload took the total over the cap and
\* ended the loop, and the third item was never taken
C4_Witness ==
    /\ pc = "done"
    /\ idx = 2 /\ Len(Items) = 3
    /\ total_size > MAX_TOTAL_SIZE
    /\ code_contents # <<>>
    /\ warnings[Len(warnings)] = TOTAL_WARNING
    /\ \A r \in 1..Len(reads) : reads[r][1] < 2

\* C5 as stated: the running total is the sum of the lengths of the contents
\* accepted so far.
C5_TotalIsAcceptedContent ==
    (args.fn = "process_uploaded_files" /\ pc \in {"loop", "done"}) =>
        total_size = ContentLength(code_contents)

\* C5, amended: the running total is the sum of the size attributes of the items
\* taken so far whose size is positive, whether or not the item was accepted,
\* truncated or an archive.
C5_TotalIsUploadSizes ==
    args.fn = "process_uploaded_files" => total_size = PositiveSizes(idx)

\* an archive of upload size 1 gave 6 characters of content, and a rejected file of
\* 3 bytes was counted
C5_Witness ==
    /\ pc = "done"
    /\ Len(Items) = 2 /\ idx = 2
    /\ Items[1].size = Some(1) /\ Items[1].archive # None
    /\ Items[2] = RegularFile(N_TXT, OK3)
    /\ total_size = 4
    /\ ContentLength(code_contents) = 6

\* the number of characters of a text between its first and its last character
\* that is not white space
TrimmedLength(text) ==
    LET solid == {i \in 1..Len(text) : text[i] \notin WhitespaceCodePoints}
    IN  IF solid = {} THEN 0
        ELSE (CHOOSE i \in solid : \A j \in solid : j <= i)
             - (CHOOSE i \in solid : \A j \in solid : j >= i) + 1

\* the names a warning about an upload can carry: the upload's own name and the
\* paths of an archive's entries, as written and with their separators normalised
NamesOf(u) ==
    {u.name[k] : k \in 1..Len(u.name)} \cup
    (IF u.archive = <<>> THEN {}
     ELSE UNION {{u.archive[1][j].filename, Slashed(u.archive[1][j].filename)} :
                 j \in 1..Len(u.archive[1])})

IsArchiveName(name) == Len(name) >= 4 /\ Lower(SubSeq(name, Len(name) - 3, Len(name))) = DOT_ZIP

\* the first max bytes of a body
FirstBytes(body, max) == [i \in 1..(IF Len(body) < max THEN Len(body) ELSE max) |-> body[i]]

\* an archive entry that the ingestor goes on to read
EntryIsRead(e) ==
    /\ ~UnsafePath(e.filename)
    /\ sanitize_zip_member_path(e.filename)[1] # <<>>
    /\ e.filename[Len(e.filename)] # "/"
    /\ e.file_size <= MAX_FILE_SIZE
    /\ is_supported_file(Str(Slashed(e.filename)))
    /\ e.filename[1] # "."

\* the upload fails: a corrupt archive, a stream or an archive entry that cannot be
\* read, bytes that are not UTF-8
ItemFails(u) ==
    IF IsArchiveName(u.name[1])
    THEN \/ u.stream # "ok"
         \/ u.archive = <<>>
         \/ \E j \in 1..Len(u.archive[1]) :
               /\ EntryIsRead(u.archive[1][j])
               /\ \/ u.archive[1][j].read # "ok"
                  \/ ~Utf8Decode(u.archive[1][j].content)[1]
    ELSE /\ is_supported_file(Str(u.name[1]))
         /\ \/ u.stream # "ok"
            \/ ~Utf8Decode(FirstBytes(u.body, MAX_FILE_SIZE))[1]

\* C6 as stated: the step that takes a failing upload (within the size budget)
\* appends a warning that names it, keeps every CodeFile accumulated before it, and
\* leaves the loop running for the later items.
C6_Step ==
    (/\ args.fn = "process_uploaded_files"
     /\ idx' = idx + 1
     /\ Items[idx'].name # <<>>
     /\ Items[idx'].size # <<>> /\ Items[idx'].size[1] > 0
     /\ PositiveSizes(idx') <= MAX_TOTAL_SIZE
     /\ ItemFails(Items[idx'])) =>
        /\ IsPrefix(warnings, warnings')
        /\ \E k \in (Len(warnings) + 1)..Len(warnings') :
              warnings'[k].name # <<>> /\ warnings'[k].name[1] \in NamesOf(Items[idx'])
        /\ IsPrefix(code_contents, code_contents')
        /\ pc' = "loop"

C6_FailedItemWarned == [][C6_Step]_vars

\* one plain upload of a supported type, readable, valid UTF-8, within both caps,
\* in a list of its own
OnePlainFile ==
    /\ args.fn = "process_uploaded_files"
    /\ Len(Items) = 1 /\ ~uploaded_files.raises
    /\ Items[1].name # <<>>
    /\ ~IsArchiveName(Items[1].name[1])
    /\ is_supported_file(Str(Items[1].name[1]))
    /\ Items[1].stream = "ok"
    /\ Items[1].size = <<Len(Items[1].body)>>

RoundTripInput ==
    /\ OnePlainFile
    /\ Len(Items[1].body) <= MAX_FILE_SIZE
    /\ Len(Items[1].body) <= MAX_TOTAL_SIZE
    /\ Utf8Decode(Items[1].body)[1]

RoundTripOutput ==
    /\ code_contents = <<CodeFile(Items[1].name[1], Utf8Decode(Items[1].body)[2])>>
    /\ warnings = <<>>

\* C7 as stated: one plain file of valid UTF-8 within the caps comes back as exactly
\* one CodeFile holding the decoded body, with no warning.
C7_RoundTripAnyLength == (pc = "done" /\ RoundTripInput) => RoundTripOutput

\* C7, amended: ... provided the decoded body has at least the minimum number of
\* characters after trimming.
C7_RoundTrip ==
    (/\ pc = "done"
     /\ RoundTripInput
     /\ TrimmedLength(Utf8Decode(Items[1].body)[2]) >= MIN_CONTENT_LENGTH) => RoundTripOutput

\* " aaa" came back as it was decoded, leading space included
C7_Witness ==
    /\ pc = "done"
    /\ RoundTripInput
    /\ Items[1].body = <<32, 97, 97, 97>>
    /\ code_contents = <<CodeFile(A_PY, <<32, 97, 97, 97>>)>>
    /\ warnings = <<>>

OneByteOver == OnePlainFile /\ Len(Items[1].body) = MAX_FILE_SIZE + 1

TRUNCATED(name) == Warning("File '{}' truncated to {}MB", <<name>>)

C9_ShortContentRejected ==
    (/\ args.fn = "_decode_and_validate_content"
     /\ ret # <<>>
     /\ Utf8Decode(args.raw_content)[1]
     /\ TrimmedLength(Utf8Decode(args.raw_content)[2]) < MIN_CONTENT_LENGTH) =>
        /\ ret[1][1] = <<>>
        /\ Len(ret[1][2]) = Len(args.warnings) + 1
        /\ IsPrefix(args.warnings, ret[1][2])
        /\ ret[1][2][Len(ret[1][2])].name = <<args.filename>>

\* " aa " after an earlier warning: rejected as too short, one warning more
C9_Witness ==
    /\ args.fn = "_decode_and_validate_content"
    /\ args.raw_content = <<32, 97, 97, 32>>
    /\ Len(args.warnings) = 1
    /\ ret # <<>>
    /\ ret[1][1] = <<>>
    /\ ret[1][2] = Append(args.warnings,
                          Warning("File '{}' is too short for meaningful analysis. Skipping.",
                                  <<args.filename>>))

\* the bodies the submission holds: of the plain uploads and of the archives' entries
SourceBodies ==
    {Items[i].body : i \in 1..Len(Items)}
    \cup UNION {IF Items[i].archive = <<>> THEN {}
                ELSE {Items[i].archive[1][j].content : j \in 1..Len(Items[i].archive[1])} :
                i \in 1..Len(Items)}

\* C10: at every point of a pass over any submission, every CodeFile accumulated
\* holds the UTF-8 decoding of (the first cap bytes of) a submitted body, is not
\* blank, has at least the minimum number of characters after trimming, and is no
\* longer than the per-file cap.
C10_CodeFilesValid ==
    args.fn = "process_uploaded_files" =>
        \A k \in 1..Len(code_contents) :
            LET content == code_contents[k].content
            IN  /\ \E b \in SourceBodies : Utf8Decode(FirstBytes(b, MAX_FILE_SIZE)) = <<TRUE, content>>
                /\ TrimmedLength(content) > 0
                /\ TrimmedLength(content) >= MIN_CONTENT_LENGTH
                /\ Len(content) <= MAX_FILE_SIZE

\* an archive gave "aaa" and "éaa", then a plain file one byte over the cap gave "aaaa"
C10_Witness ==
    /\ pc = "done"
    /\ Len(Items) = 2
    /\ code_contents = <<CodeFile(A_PY, <<97, 97, 97>>),
                         CodeFile(<<"d", "/">> \o A_PY, <<233, 97, 97>>),
                         CodeFile(A_PY, <<97, 97, 97, 97>>)>>

\* ---------------------------------------------------------------------- C11
\* two characters that differ at most in case
SameLetter(x, y) ==
    \/ x = y
    \/ x \in DOMAIN UpperToLower /\ UpperToLower[x] = y
    \/ y \in DOMAIN UpperToLower /\ UpperToLower[y] = x

SameIgnoringCase(a, b) ==
    Len(a) = Len(b) /\ \A i \in 1..Len(a) : SameLetter(a[i], b[i])

\* the text from the last dot of name to its end; no text when name has no dot
LastDotSuffix(name) ==
    {SubSeq(name, k, Len(name)) :
        k \in {i \in 1..Len(name) : name[i] = "." /\ \A j \in (i+1)..Len(name) : name[j] # "."}}

Allowed(obj) ==
    /\ obj.type = "str"
    /\ \E suffix \in LastDotSuffix(obj.value) : \E e \in SUPPORTED_EXTS_SET : SameIgnoringCase(suffix, e)

\* C11: is_supported_file answers true exactly when the text from the last dot of
\* the filename to its end is, ignoring case, an extension of the allow-list; it
\* answers false for a name without a dot, an empty name and a value that is no
\* string.
C11_SupportedIffAllowListed ==
    (args.fn = "is_supported_file" /\ ret # None) => (Get(ret) = Allowed(args.filename))

\* a mixed-case name with two dots is accepted, and so the last dot decided
C11_Witness ==
    /\ args.fn = "is_supported_file"
    /\ ret = Some(TRUE)
    /\ args.filename = Str(<<".", "c", ".", "P", "y">>)

\* ---------------------------------------------------------------------- C12
\* the statements a text of the pool was written from
StatementsOf(text) == CHOOSE stmts \in StatementLists : Render(stmts) = text

\* the modules a Python source imports: every module of an import statement, and
\* the module a from-statement takes names from
ImportedModules(text) ==
    UNION {{stmt.modules[k] : k \in 1..Len(stmt.modules)} :
            stmt \in {StatementsOf(text)[n] : n \in 1..Len(StatementsOf(text))}}

\* the module a file defines: its name without the extension
ModuleOfFile(filename) == SubSeq(filename, 1, RFind(filename, ".") - 1)

Batch == args.code_contents

\* the file at i imports the file at j
ImportsAt(i, j) == ModuleOfFile(Batch[j].filename) \in ImportedModules(Batch[i].content)

DistinctNames ==
    \A i, j \in 1..Len(Batch) : i # j => Batch[i].filename # Batch[j].filename

\* some file reaches itself along imports
Cyclic ==
    \E n \in 1..Len(Batch) : \E path \in [1..(n + 1) -> 1..Len(Batch)] :
        /\ path[1] = path[n + 1]
        /\ \A k \in 1..n : ImportsAt(path[k], path[k + 1])

\* item is in out, and only before index k
Before(out, item, k) ==
    \E m \in 1..(k - 1) : out[m] = item

\* C12: detect_dependencies places dependencies before dependents: for a batch of
\* distinctly named files whose import relation is acyclic, every file stands in
\* the output after each file of the batch it imports.
C12_DependenciesFirst ==
    (args.fn = "detect_dependencies" /\ ret # None /\ DistinctNames /\ ~Cyclic) =>
        \A i, j \in 1..Len(Batch) :
            ImportsAt(i, j) =>
                \E k \in 1..Len(Get(ret)) :
                    Get(ret)[k] = Batch[i] /\ Before(Get(ret), Batch[j], k)

\* ---------------------------------------------------------------------- C13
\* how often item occurs in list
Occurrences(list, item) == Cardinality({k \in 1..Len(list) : list[k] = item})

IsPermutation(out, in) ==
    /\ Len(out) = Len(in)
    /\ \A k \in 1..Len(in) : Occurrences(out, in[k]) = Occurrences(in, in[k])

\* C13: detect_dependencies returns a permutation of its input for every input
\* list, cyclic imports included: every input file occurs exactly once in the
\* output.
C13_OutputIsPermutation ==
    (args.fn = "detect_dependencies" /\ ret # None) => IsPermutation(Get(ret), Batch)

\* ---------------------------------------------------------------------- C14
\* the files of list whose score is n, in the order of list
RECURSIVE WithScore(_, _)
WithScore(list, n) ==
    IF list = <<>> THEN <<>>
    ELSE (IF Score(Head(list)) = n THEN <<Head(list)>> ELSE <<>>) \o WithScore(Tail(list), n)

C15_PromptDeterministic ==
    (args.fn = "construct_user_prompt" /\ Len(ret) = 2) => ret[1] = ret[2]

\* ---------------------------------------------------------------------- C16
\* the values of field of the parts of that kind, in the order of the prompt
RECURSIVE PartsOf(_, _)
PartsOf(prompt, kind) ==
    IF prompt = <<>> THEN <<>>
    ELSE (IF Head(prompt).part = kind THEN <<Head(prompt)>> ELSE <<>>) \o PartsOf(Tail(prompt), kind)

MANIFEST_LINE == "{i}. **{filename}** ({lines} lines, {chars} chars, {lang})\n"
FILE_HEADER == "### FILE: {}\n\n"
CODE_BLOCK == "'''\n{}\n'''\n\n"

ManifestFilenames(prompt) ==
    [k \in 1..Len(PartsOf(prompt, MANIFEST_LINE)) |-> PartsOf(prompt, MANIFEST_LINE)[k].filename]

\* the files of the code blocks: each heading with the block that follows it
BlockFiles(prompt) ==
    [k \in 1..Len(PartsOf(prompt, FILE_HEADER)) |->
        CodeFile(PartsOf(prompt, FILE_HEADER)[k].filename, PartsOf(prompt, CODE_BLOCK)[k].content)]

\* C16: construct_user_prompt neither omits nor reorders files: every CodeFile of
\* the input list, files sharing a filename included, stands exactly once in the
\* manifest and exactly once as a code block with its content unchanged, in the
\* order of the input list.
C16_NoFileOmittedOrReordered ==
    \A n \in 1..Len(ret) :
        (args.fn = "construct_user_prompt" /\ ret[n].exc = None) =>
            /\ ManifestFilenames(Get(ret[n].prompt)) = FilenameList(Batch)
            /\ Len(PartsOf(Get(ret[n].prompt), CODE_BLOCK)) = Len(Batch)
            /\ BlockFiles(Get(ret[n].prompt)) = Batch

\* ---------------------------------------------------------------------- C17
Validated == args.fn = "validate_and_estimate_tokens" /\ ret # None
PromptLength == Len(args.user_prompt)
\* E = floor(L/4), written without the model's estimate: the one E with 4E <= L < 4E + 4
Estimate == CHOOSE E \in 0..PromptLength : 4 * E <= PromptLength /\ PromptLength < 4 * E + 4
IsValid == Get(ret)[1]
Message == Get(ret)[2]
TokenCount == Get(ret)[3]
WarningFlagged == Contains(Message.text, WARNING_SIGN)

\* C17: validate_and_estimate_tokens, with estimate E = floor(L/4) for a prompt of
\* length L and ceiling C: an empty prompt is invalid with 0 tokens; a prompt
\* that is not empty is valid exactly when E <= C, so E = C is valid and E = C+1
\* is invalid; for E <= C the message is the warning-flagged one exactly when
\* E > 0.75*C (4E > 3C); the returned token count is always E.
C17_TokenBoundaries ==
    Validated =>
        /\ TokenCount = Estimate
        /\ PromptLength = 0 => (~IsValid /\ TokenCount = 0)
        /\ PromptLength > 0 => (IsValid <=> Estimate <= MAX_REQUEST_TOKENS)
        /\ (PromptLength > 0 /\ Estimate <= MAX_REQUEST_TOKENS) =>
                (WarningFlagged <=> 4 * Estimate > 3 * MAX_REQUEST_TOKENS)

\* the boundaries have been called: here the largest estimate without the flag
C17_Witness ==
    /\ Validated
    /\ 4 * Estimate = 3 * MAX_REQUEST_TOKENS
    /\ IsValid /\ ~WarningFlagged

\* ---------------------------------------------------------------------- C18
Streaming == args.fn \in {STREAM_GROK_REVIEW, STREAM_CHAT}
\* the content-delta events: deltas that carry a text
ContentDeltas == {DeltaLine(Str(<<"a">>)), DeltaLine(Str(<<"b">>))}
ContentOfLine(line) == DictAt(DictAt(line.json, CHOICES).value[1], DELTA).value[1][2]
DeltasReceived == SubSeq(ret.received, 1, Len(ret.received) - 1)
\* the response was answered with success and the generator has read a body of
\* n content deltas followed by the sentinel
DeltasThenDone ==
    /\ Streaming
    /\ ret.posted /\ ret.failure = None
    /\ ret.received # <<>>
    /\ ret.received[Len(ret.received)] = DoneLine
    /\ \A i \in 1..Len(DeltasReceived) : DeltasReceived[i] \in ContentDeltas

\* C18: for a successful response whose body is n content-delta events followed
\* by the sentinel line, the streaming client (stream_grok_review as well as
\* stream_chat) yields exactly n chunks, the n deltas in the order in which the
\* transport delivered them, and then ends without an error.
C18_DeltasYieldedInOrder ==
    DeltasThenDone =>
        /\ ret.pc = "end" /\ ret.exc = None
        /\ ret.chunks = [i \in 1..Len(DeltasReceived) |-> ContentOfLine(DeltasReceived[i])]

\* ---------------------------------------------------------------------- C19
Unauthorized == Streaming /\ ret.failure = Some(HTTPErrorOf(401, <<>>))

\* C19: when the transport answers the POST with HTTP 401, the generator of the
\* streaming client produces exactly one chunk, that chunk contains the word
\* "Authentication", and the generator then ends.
C19_OneAuthenticationChunk ==
    Unauthorized =>
        /\ ret.pc = "end" /\ ret.exc = None
        /\ Len(ret.chunks) = 1
        /\ Contains(ret.chunks[1].value, <<"Authentication">>)

\* ---------------------------------------------------------------------- C20
TransportFailed == Streaming /\ ret.failure # None

\* C20: the streaming client never raises to its caller: every failure of the
\* transport or of the remote side (HTTP 401, 429, 402, 503, another status, a
\* timeout, a connection failure, any other exception), on the request or while
\* the body is read, becomes one descriptive text chunk, the last the generator
\* yields, after which it ends.
C20_FailuresBecomeOneChunk ==
    TransportFailed =>
        /\ ret.exc = None
        /\ ret.pc = "end"
        /\ ret.chunks # <<>>
        /\ ret.chunks[Len(ret.chunks)] = ErrorChunk(Get(ret.failure))

\* ---------------------------------------------------------------------- C21
\* the lines that cannot be decoded, are no JSON, or have an unexpected structure
BadLines == {UndecodableLine, MalformedLine, StringChoiceLine, NumberLine}
IsGoodLine(line) == line \notin BadLines
IsContentDelta(line) == line \in ContentDeltas
IsText(chunk) == chunk \in {Str(<<"a">>), Str(<<"b">>)}

\* the generator once the POST has been answered with success
Answered(fn, api_key, user_prompt) ==
    IF fn = STREAM_GROK_REVIEW
        THEN GrokPost(GrokStart(NewGenerator, api_key, user_prompt), OkResponse)
    ELSE ChatPost(NewGenerator, OkResponse)

\* the generator after it was handed the lines, one after the other
RECURSIVE Replay(_, _, _, _)
Replay(fn, gen, lines, k) ==
    IF k > Len(lines) \/ gen.pc # "body" THEN gen
    ELSE Replay(fn, IF fn = STREAM_GROK_REVIEW THEN GrokTakeLine(gen, lines[k])
                    ELSE ChatTakeLine(gen, lines[k]), lines, k + 1)

\* the response was answered with success and the transport has not failed
ReadingBody == Streaming /\ ret.posted /\ ret.failure = None /\ ret.pc \in {"body", "end"}

ContentsReceived ==
    LET deltas == SelectSeq(ret.received, IsContentDelta)
    IN  [i \in 1..Len(deltas) |-> ContentOfLine(deltas[i])]

\* the chunks are those of the same response without its bad lines, and the
\* content deltas among the lines read are all yielded, in the order of the lines
BadLinesTransparent ==
    ReadingBody =>
        /\ ret.exc = None
        /\ ret.chunks = Replay(args.fn, Answered(args.fn, args.api_key, args.user_prompt),
                               SelectSeq(ret.received, IsGoodLine), 1).chunks
        /\ SelectSeq(ret.chunks, IsText) = ContentsReceived

\* the generator takes a bad line: it yields nothing and goes on reading
TakesBadLine ==
    /\ ReadingBody
    /\ \E line \in BadLines : ret'.received = Append(ret.received, line)
BadLineSkipped == TakesBadLine => (ret'.chunks = ret.chunks /\ ret'.pc = "body" /\ ret'.exc = None)

\* C21: a bad line never aborts the stream: a response line that cannot be
\* decoded as UTF-8, is not valid JSON, or has an unexpected structure yields
\* nothing and leaves the generator reading, and every content delta among the
\* lines read, those after a bad line included, is yielded in the order of the
\* lines.
C21_BadLinesSkipped == []BadLinesTransparent /\ [][BadLineSkipped]_vars

\* a content delta has been yielded after a line that is no JSON
C21_Witness ==
    /\ ReadingBody
    /\ ret.received = <<DeltaLine(Str(<<"a">>)), MalformedLine, DeltaLine(Str(<<"b">>))>>
    /\ SelectSeq(ret.chunks, IsText) = <<Str(<<"a">>), Str(<<"b">>)>>

\* ---------------------------------------------------------------------- C22
\* the request stream_grok_review must refuse: no API key, no prompt, or a
\* prompt whose estimate floor(L/4) is above the ceiling
KeyMissing == ~Truthy(args.api_key)
PromptMissing == ~Truthy(args.user_prompt)
PromptOverCeiling == Truthy(args.user_prompt) /\ Len(args.user_prompt.value) >= 4 * (MAX_REQUEST_TOKENS + 1)
Refused == args.fn = STREAM_GROK_REVIEW /\ (KeyMissing \/ PromptMissing \/ PromptOverCeiling)
Explanation ==
    IF KeyMissing THEN INVALID_API_KEY
    ELSE IF PromptMissing THEN INVALID_PROMPT
    ELSE RequestTooLargeChunk(RequestTooLarge(Len(args.user_prompt.value) \div 4))

\* C22: fail fast on size: when validate_and_estimate_tokens reports the prompt
\* invalid, or the API key or the prompt is empty, stream_grok_review yields a
\* single explanatory chunk and ends, and the HTTP POST is never issued.
C22_FailFast ==
    Refused =>
        /\ ~ret.posted
        /\ ret.pc \in {"start", "end"}
        /\ ret.pc = "end" => ret.chunks = <<Explanation>>

\* a prompt over the ceiling has been refused
C22_Witness ==
    /\ Refused /\ ~KeyMissing /\ PromptOverCeiling
    /\ ret.pc = "end"
    /\ Len(ret.chunks) = 1 /\ ~ret.posted

\* ---------------------------------------------------------------------- C23
\* the chunks stream_grok_review yields for a timeout and for a connection failure
ErrorChunks == {TIMEOUT_ERROR, CONNECTION_ERROR}
IsErrorChunk(chunk) == chunk \in ErrorChunks
\* the body broke with a timeout or a connection failure
BrokenClass == Get(ret.failure).raises
BodyBroke ==
    /\ args.fn = STREAM_GROK_REVIEW
    /\ ret.posted /\ ret.failure # None
    /\ Get(ret.failure).status = 0
    /\ ret.received # <<>>
    /\ BrokenClass \in {Some("Timeout"), Some("ConnectionError")}
\* what had been yielded when the failure came
YieldedBefore ==
    Replay(args.fn, Answered(args.fn, args.api_key, args.user_prompt), ret.received, 1).chunks

ChunksKeptThenOneError ==
    BodyBroke =>
        /\ ret.pc = "end" /\ ret.exc = None
        /\ ret.chunks = Append(YieldedBefore,
                               IF BrokenClass = Some("Timeout") THEN TIMEOUT_ERROR ELSE CONNECTION_ERROR)
        /\ \A i \in 1..Len(YieldedBefore) : ~IsErrorChunk(YieldedBefore[i])

\* once an error chunk has been yielded nothing more is yielded
NothingAfterError ==
    (args.fn = STREAM_GROK_REVIEW /\ ret.chunks # <<>> /\ IsErrorChunk(ret.chunks[Len(ret.chunks)]))
        => ret' = ret

\* C23: when a timeout or a connection failure happens after content chunks were
\* yielded by stream_grok_review, those chunks stay yielded in their order,
\* exactly one error chunk follows them, the generator then stops, and no
\* content chunk is yielded after an error chunk.
C23_PartialOutputKept == []ChunksKeptThenOneError /\ [][NothingAfterError]_vars

\* two deltas were yielded, then the body timed out
C23_Witness ==
    /\ BodyBroke /\ BrokenClass = Some("Timeout")
    /\ ret.chunks = <<REQUEST_ID_CHUNK, Str(<<"a">>), Str(<<"b">>), TIMEOUT_ERROR>>

\* ---------------------------------------------------------------------- C24
SentinelRead == Streaming /\ \E i \in 1..Len(ret.received) : ret.received[i] = DoneLine
AllErrorChunks ==
    {AUTHENTICATION_ERROR, RATE_LIMIT_EXCEEDED, PAYMENT_REQUIRED, SERVICE_UNAVAILABLE,
     TIMEOUT_ERROR, CONNECTION_ERROR, NETWORK_ERROR, UNEXPECTED_ERROR}
     \cup {HTTPErrorChunk(500, detail) : detail \in {<<>>, ERROR_DETAIL}}

\* the sentinel is the last line taken, and the generator has ended without an
\* exception and without an error chunk
EndedAtSentinel ==
    SentinelRead =>
        /\ ret.received[Len(ret.received)] = DoneLine
        /\ ret.pc = "end" /\ ret.exc = None /\ ret.failure = None
        /\ \A i \in 1..Len(ret.chunks) : ret.chunks[i] \notin AllErrorChunks

\* C24: the sentinel ends consumption: once a 'data: [DONE]' line is read, no
\* later line of the response is taken, parsed or yielded, and the generator
\* ends without yielding an error chunk.
C24_SentinelEndsConsumption == []EndedAtSentinel /\ [][SentinelRead => ret' = ret]_vars

\* the sentinel was read after a delta
C24_Witness ==
    /\ SentinelRead
    /\ ret.received = <<DeltaLine(Str(<<"a">>)), DoneLine>>
    /\ ret.pc = "end"
    /\ ret.chunks[Len(ret.chunks)] = Str(<<"a">>)

\* ---------------------------------------------------------------------- C27
IsNonEmptyText(chunk) == chunk.type = "str" /\ chunk.value # <<>>

\* C27: every chunk the streaming client (stream_grok_review or stream_chat)
\* yields on a successful response is a non-empty text string: a delta whose
\* content is null, missing or the empty string yields nothing.
C27_ChunksAreNonEmptyText ==
    (Streaming /\ ret.posted /\ ret.failure = None) =>
        \A i \in 1..Len(ret.chunks) : IsNonEmptyText(ret.chunks[i])

\* ---------------------------------------------------------------------- C25
EmptyFrame == Frame(<<>>, <<>>, <<>>)
\* what the item the loop takes next adds when it is handled on its own
NextItem == uploaded_files.items[idx + 1]
ItemAlone == OuterHandler(LoopBody(NextItem, EmptyFrame, idx + 1, total_size))

\* what the entries of an archive add, each handled on its own, one after the other
RECURSIVE EntriesAlone(_, _, _)
EntriesAlone(infolist, i, j) ==
    IF j > Len(infolist) THEN [cc |-> <<>>, w |-> <<>>]
    ELSE LET entry == ZipEntry(infolist[j], EmptyFrame, i, j, MAX_FILE_SIZE)
             rest == EntriesAlone(infolist, i, j + 1)
         IN  [cc |-> entry.cc \o rest.cc, w |-> entry.w \o rest.w]

\* the item is an archive that is opened and walked
WalkedArchive(uploaded_file) ==
    /\ SizeOf(uploaded_file) > 0 /\ ~Breaks(uploaded_file, total_size)
    /\ uploaded_file.name # None
    /\ EndsWith(Lower(Get(uploaded_file.name)), DOT_ZIP)
    /\ uploaded_file.stream = "ok" /\ uploaded_file.archive # None

\* a step of the loop appends: what was returned so far stays in front, the
\* CodeFiles and warnings of the item come behind it, and those of an archive
\* are in the order of its directory listing
ItemAppended ==
    (pc = "loop" /\ idx' = idx + 1) =>
        /\ code_contents' = code_contents \o ItemAlone.cc
        /\ warnings' = warnings \o ItemAlone.w
        /\ WalkedArchive(NextItem) =>
              LET entries == EntriesAlone(Get(NextItem.archive), idx + 1, 1)
              IN  ItemAlone.cc = entries.cc /\ ItemAlone.w = entries.w
\* any other step keeps what was returned so far in front
OthersAppend ==
    /\ Len(code_contents') >= Len(code_contents)
    /\ SubSeq(code_contents', 1, Len(code_contents)) = code_contents
    /\ Len(warnings') >= Len(warnings)
    /\ SubSeq(warnings', 1, Len(warnings)) = warnings

\* C25: process_uploaded_files preserves order: the returned CodeFiles are in
\* the submission order of the items that produced them and, within one zip, in
\* the order of the archive's directory listing, and the warnings are in the
\* order in which the items (and entries) were handled.
C25_OrderPreserved == [][ItemAppended /\ OthersAppend]_vars

\* an archive of two files and a plain file after it have been returned in that order
C25_Witness ==
    /\ args.fn = "process_uploaded_files" /\ pc = "done"
    /\ Len(uploaded_files.items) = 2
    /\ code_contents = <<CodeFile(A_PY, <<97, 97, 97>>),
                         CodeFile(<<"d", "/">> \o A_PY, <<233, 97, 97>>),
                         CodeFile(A_PY, <<97, 97, 97>>)>>

\* ---------------------------------------------------------------------- C26
Oversize(file_info) == file_info.file_size > MAX_FILE_SIZE
\* a file entry whose path the sanitizer accepts
SafeFileEntry(file_info) ==
    /\ ~IsDir(file_info)
    /\ sanitize_zip_member_path(file_info.filename)[2] = None
    /\ sanitize_zip_member_path(file_info.filename)[1] \notin {None, Some(<<>>)}
LargeFileWarning(file_info) ==
    Warning("Skipping large file in ZIP: {} ({} bytes)",
            sanitize_zip_member_path(file_info.filename)[1])
\* what entry j of the archive that the loop takes next adds on its own
EntryAlone(j) == ZipEntry(Get(NextItem.archive)[j], EmptyFrame, idx + 1, j, MAX_FILE_SIZE)
WalksArchive == pc = "loop" /\ idx' = idx + 1 /\ WalkedArchive(NextItem)
OversizeEntries == {j \in 1..Len(Get(NextItem.archive)) : Oversize(Get(NextItem.archive)[j])}

\* an oversize entry is not opened and gives no CodeFile
NeverRead(j) ==
    /\ <<idx + 1, j>> \notin {reads'[k] : k \in 1..Len(reads')}
    /\ EntryAlone(j).rd = <<>>
    /\ EntryAlone(j).cc = <<>>

\* C26 as stated: a zip entry whose directory-listing size exceeds the per-file
\* cap is rejected from the metadata alone: it is skipped with one warning, its
\* content is never opened or read, and it yields no CodeFile.
C26_OversizeEntryWarned ==
    [][WalksArchive =>
          \A j \in OversizeEntries :
              NeverRead(j) /\ EntryAlone(j).w = <<LargeFileWarning(Get(NextItem.archive)[j])>>]_vars

\* C26, amended: a zip entry whose directory-listing size exceeds the per-file
\* cap is never opened or read and yields no CodeFile; it is skipped with one
\* warning when it is a file entry whose path the sanitizer accepts, whatever
\* its extension, and without a warning when its path is unsafe or it is a
\* directory entry.
C26_OversizeEntryNeverRead ==
    [][WalksArchive =>
          \A j \in OversizeEntries :
              /\ NeverRead(j)
              /\ EntryAlone(j).w = IF SafeFileEntry(Get(NextItem.archive)[j])
                                   THEN <<LargeFileWarning(Get(NextItem.archive)[j])>> ELSE <<>>]_vars

\* an archive whose one entry is over the cap has been handled
C26_Witness ==
    /\ args.fn = "process_uploaded_files" /\ pc = "done"
    /\ uploaded_files.items = <<ZipUpload(1, <<Entry(A_PY, "ok", OVER5)>>)>>
    /\ code_contents = <<>>
    /\ reads = << <<1, 0>> >>
    /\ warnings = <<Warning("Skipping large file in ZIP: {} ({} bytes)", Some(A_PY))>>

\* ---------------------------------------------------------------------- C28
\* a CodeFile that process_uploaded_files can return for a zip entry: a path the
\* sanitizer leaves as it is, a supported extension, and a text that is its own
\* strip() and has MIN_CONTENT_LENGTH characters or more
CanBeIngested(code_file) ==
    /\ sanitize_zip_member_path(code_file.filename) = <<Some(code_file.filename), None>>
    /\ is_supported_file(Str(code_file.filename))
    /\ Len(code_file.content) >= MIN_CONTENT_LENGTH
    /\ ~IsSpace(code_file.content[1])
    /\ ~IsSpace(code_file.content[Len(code_file.content)])
IngestorOutput(code_files) == \A k \in 1..Len(code_files) : CanBeIngested(code_files[k])

\* C28: construct_user_prompt is total on ingestor output: for every CodeFile
\* list that process_uploaded_files can return (a zip that holds both an entry
\* x.py and an entry x.py/y.py included) it returns a string and does not raise.
C28_PromptBuilderTotal ==
    (args.fn = "construct_user_prompt" /\ IngestorOutput(args.code_contents))
        => \A k \in 1..Len(ret) : ret[k].exc = None /\ ret[k].prompt # None

\* ---------------------------------------------------------------------- C29
\* the call has returned, and it was answered from the cache
ServedFromCache ==
    /\ args.fn = STREAM_ENHANCED_REVIEW
    /\ ret.gen.pc = "end"
    /\ ret.gen.cached_result # None
StoredText == Get(ret.gen.cached_result).content

\* the texts of the chunks, one after the other
RECURSIVE ChunkText(_)
ChunkText(chunks) ==
    IF chunks = <<>> THEN <<>> ELSE Head(chunks).text.value \o ChunkText(Tail(chunks))

\* C29: cache round trip in stream_enhanced_review: after a review was streamed
\* and stored, a later call with the same prompt and caching enabled issues no
\* HTTP request and yields chunks whose concatenation equals the stored
\* response text exactly, line breaks and spacing included.
C29_CacheRoundTrip ==
    ServedFromCache =>
        /\ args.enable_caching
        /\ ~ret.gen.posted
        /\ ChunkText(ret.gen.chunks) = StoredText

\* ---------------------------------------------------------------------- C30
\* C30: stream_enhanced_review serves a cached review only when it was produced
\* with the model of the current request: a call for model M never returns text
\* that a call for another model generated and stored.
C30_CachedReviewOfSameModel ==
    ServedFromCache => Get(ret.gen.cached_result).model = args.model
====
